---- MODULE Spec2Model ----
(***************************************************************************)
(* Invoice processing pipeline: the rule-based risk scorer                 *)
(* (services/risk_engine.py) and the transactional invoice store           *)
(* (services/database_ops.py over models/models.py).                       *)
(*                                                                         *)
(* Text is a sequence of one-character strings, so that lower() and the    *)
(* substring test `in` are computed and not assumed.  Amounts are counted  *)
(* in hundredths, so that 10000.01 and 9999.99 are values of the model.    *)
(* A calendar date is a record [y, m, d].                                  *)
(***************************************************************************)
EXTENDS Integers, Sequences, FiniteSets, TLC

VARIABLES
    mode,        \* scorer harness: "idle", "scored" or "tiered"
    riskInput,   \* the invoice_data dict handed to calculate_risk
    riskResult,  \* its return value (risk_score, risk_level, xai_factors)
    probeScore,  \* a score handed directly to the tier thresholds
    probeTier,   \* the tier the thresholds give it
    ingestInput,   \* the document and the model reply handed to ingest_invoice_pdf
    ingestResult,  \* what ingest_invoice_pdf returned or raised
    processedDir,  \* the directory src/processed: file name -> content
    inboxDir,      \* the watched directory src/invoice_inbox: file name -> content
    failedDir,     \* the directory src/failed: file name -> content
    run,           \* the last run of the pipeline: its input and how it ended
    invoiceTable,     \* committed rows of table invoice
    riskFactorTable,  \* committed rows of table risk_factor
    nextInvoiceId,    \* next autoincrement value of invoice.id
    nextFactorId,     \* next autoincrement value of risk_factor.id
    pc,               \* per adder: where it stands in add_invoice_with_risk_factors
    args,             \* per adder: (invoice_data, risk_factors_data) of its call
    new_invoice,      \* per adder: the Invoice object under construction
    caught,           \* per adder: the exception caught at line 14, if any
    outcome,          \* per adder: how its last call ended
    txInvoices,       \* per adder: invoice rows inserted in its open transaction
    txFactors,        \* per adder: risk_factor rows inserted in its open transaction
    callsMade,        \* number of calls of add_invoice_with_risk_factors begun
    created,          \* invoice id -> the risk_factors_data of the call that inserted it
    rpc,              \* reader: where it stands in its read
    result,           \* reader: what its queries returned so far
    loaded,           \* reader: the risk_factors loaded for the invoices of result
    seenIds           \* reader: the ids of the invoice rows its last statement read

riskVars == <<mode, riskInput, riskResult, probeScore, probeTier>>

fileVars == <<processedDir, inboxDir, failedDir, run>>

ingestVars == <<ingestInput, ingestResult, fileVars>>

addVars == <<pc, args, new_invoice, caught, outcome, txInvoices, txFactors,
             callsMade, created>>

readVars == <<rpc, result, loaded, seenIds>>

dbVars == <<invoiceTable, riskFactorTable, nextInvoiceId, nextFactorId>>

vars == <<riskVars, ingestVars, dbVars, addVars, readVars>>

\* An optional value (a dict key that may be absent, a value that may be None)
\* is <<>> when absent and <<v>> when it is v.
None == <<>>
Just(v) == <<v>>

-----------------------------------------------------------------------------
(* Bounds of the model.                                                    *)

FirstYear == 2024    \* first calendar year of the dates drawn
NumYears == 1        \* number of consecutive years drawn
MaxProbeScore == 100 \* tier thresholds are probed on -MaxProbeScore..MaxProbeScore
MaxCalls == 2        \* calls of add_invoice_with_risk_factors in one run
MaxTextLen == 5      \* length of the texts handed to clean_narrative_text
MaxFiles == 2        \* files the monitor moves out of the watched directory

-----------------------------------------------------------------------------
(* Text.                                                                   *)

UpperCase == <<"A","B","C","D","E","F","G","H","I","J","K","L","M",
               "N","O","P","Q","R","S","T","U","V","W","X","Y","Z">>
LowerCase == <<"a","b","c","d","e","f","g","h","i","j","k","l","m",
               "n","o","p","q","r","s","t","u","v","w","x","y","z">>

\* str.lower() on one character
LowerChar(c) ==
    IF \E i \in 1..Len(UpperCase) : UpperCase[i] = c
    THEN LowerCase[CHOOSE i \in 1..Len(UpperCase) : UpperCase[i] = c]
    ELSE c

\* str.lower()
Lower(s) == [i \in 1..Len(s) |-> LowerChar(s[i])]

\* Python's `sub in s` on strings
Contains(sub, s) ==
    \E i \in 0..(Len(s) - Len(sub)) : SubSeq(s, i + 1, i + Len(sub)) = sub

\* ', '.join(names)
RECURSIVE Join(_)
Join(names) ==
    IF names = <<>> THEN <<>>
    ELSE IF Len(names) = 1 THEN names[1]
    ELSE names[1] \o <<",", " ">> \o Join(Tail(names))

CONSULTING == <<"c","o","n","s","u","l","t","i","n","g">>
SERVICES == <<"s","e","r","v","i","c","e","s">>

HIGH_INVOICE_AMOUNT ==
    <<"H","i","g","h"," ","I","n","v","o","i","c","e"," ","A","m","o","u","n","t">>
VENDOR_TYPE == <<"V","e","n","d","o","r"," ","T","y","p","e">>
WEEKEND_TRANSACTION ==
    <<"W","e","e","k","e","n","d"," ","T","r","a","n","s","a","c","t","i","o","n">>

-----------------------------------------------------------------------------
(* Calendar: datetime.date.weekday(), Monday = 0 ... Sunday = 6.           *)

IsLeap(y) == (y % 4 = 0) /\ ((y % 100 # 0) \/ (y % 400 = 0))

DaysInMonth(y, m) ==
    IF m = 2 THEN (IF IsLeap(y) THEN 29 ELSE 28)
    ELSE IF m \in {4, 6, 9, 11} THEN 30 ELSE 31

RECURSIVE DaysBeforeMonth(_, _)
DaysBeforeMonth(y, m) ==
    IF m = 1 THEN 0 ELSE DaysBeforeMonth(y, m - 1) + DaysInMonth(y, m - 1)

DaysBeforeYear(y) ==
    (y - 1) * 365 + ((y - 1) \div 4) - ((y - 1) \div 100) + ((y - 1) \div 400)

ToOrdinal(dt) == DaysBeforeYear(dt.y) + DaysBeforeMonth(dt.y, dt.m) + dt.d

Weekday(dt) == (ToOrdinal(dt) + 6) % 7

-----------------------------------------------------------------------------
(* services/risk_engine.py                                                 *)

\* 10000 expressed in hundredths
Units(n) == n * 100

\* invoice_data.get('total_amount', 0)
GetAmount(invoice_data) ==
    IF invoice_data.total_amount = None THEN 0 ELSE invoice_data.total_amount[1]

\* isinstance(invoice_date, date)
IsDate(x) == x # None

HighAmountRuleStrict(invoice_data) == GetAmount(invoice_data) >= Units(10000)

\* rule 1: amount over 10000
HighAmountRule(invoice_data) == GetAmount(invoice_data) > Units(10000)

VendorRuleCaseSensitive(invoice_data) ==
    \/ Contains(CONSULTING, invoice_data.vendor_name)
    \/ Contains(SERVICES, invoice_data.vendor_name)

\* rule 2: vendor name mentions consulting or services
VendorRule(invoice_data) ==
    LET vendor_name == Lower(invoice_data.vendor_name)
    IN  Contains(CONSULTING, vendor_name) \/ Contains(SERVICES, vendor_name)

WeekendRuleSundayOnly(invoice_data) ==
    IsDate(invoice_data.invoice_date) /\ Weekday(invoice_data.invoice_date[1]) > 5

\* rule 3: the invoice date is a Saturday or a Sunday
WeekendRule(invoice_data) ==
    IsDate(invoice_data.invoice_date) /\ Weekday(invoice_data.invoice_date[1]) >= 5

Factor(name, points) == [feature_name |-> name, contribution |-> points]

RiskLevelOffByOne(risk_score) ==
    IF risk_score < 30 THEN "Low"
    ELSE IF 30 <= risk_score /\ risk_score <= 60 THEN "Medium"
    ELSE "High"

\* the tier thresholds
RiskLevel(risk_score) ==
    IF risk_score <= 30 THEN "Low"
    ELSE IF 31 <= risk_score /\ risk_score <= 60 THEN "Medium"
    ELSE "High"

ApplyRuleOverwrite(acc, fired, name, points) ==
    IF fired
    THEN [risk_score |-> points,
          xai_factors |-> Append(acc.xai_factors, Factor(name, points))]
    ELSE acc

ApplyRulePrepend(acc, fired, name, points) ==
    IF fired
    THEN [risk_score |-> acc.risk_score + points,
          xai_factors |-> <<Factor(name, points)>> \o acc.xai_factors]
    ELSE acc

\* one rule of calculate_risk: adds its points and appends its factor
ApplyRule(acc, fired, name, points) ==
    IF fired
    THEN [risk_score |-> acc.risk_score + points,
          xai_factors |-> Append(acc.xai_factors, Factor(name, points))]
    ELSE acc

calculate_risk(invoice_data) ==
    LET s0 == [risk_score |-> 0, xai_factors |-> <<>>]
        s1 == ApplyRule(s0, HighAmountRule(invoice_data), HIGH_INVOICE_AMOUNT, 45)
        s2 == ApplyRule(s1, VendorRule(invoice_data), VENDOR_TYPE, 30)
        s3 == ApplyRule(s2, WeekendRule(invoice_data), WEEKEND_TRANSACTION, 20)
    IN  [risk_score |-> s3.risk_score,
         risk_level |-> RiskLevel(s3.risk_score),
         xai_factors |-> s3.xai_factors]

\* the scorer harness at rest
ScorerIdle ==
    /\ mode = "idle"
    /\ riskInput = None
    /\ riskResult = None
    /\ probeScore = 0
    /\ probeTier = None

\* ingest_invoice_pdf has not been called
IngestIdle ==
    /\ ingestInput = None
    /\ ingestResult = None
    /\ processedDir = <<>>
    /\ inboxDir = <<>>
    /\ failedDir = <<>>
    /\ run = None

AcmeConsulting == <<"A","c","m","e"," ","C","o","n","s","u","l","t","i","n","g">>
AcmeCorp == <<"A","c","m","e"," ","C","o","r","p">>

-----------------------------------------------------------------------------
(* models/models.py and services/database_ops.py: the store.               *)
(*                                                                         *)
(* Each caller of add_invoice_with_risk_factors runs in a request (or app  *)
(* context) of its own, so db.session is a session of its own with a       *)
(* transaction of its own.  commit() flushes the pending objects with one  *)
(* INSERT per row and then commits; rows inserted in an open transaction   *)
(* are visible to that transaction alone.  An INSERT fails on a NULL in a  *)
(* NOT NULL column; the COMMIT may fail for reasons of the database's own. *)

\* the two callers of add_invoice_with_risk_factors, each in a request or app
\* context of its own: InvoiceUpload.post and InvoiceEventHandler.process_invoice
Adders == {"upload", "monitor"}

Saturday == [y |-> 2024, m |-> 1, d |-> 6]
Tuesday == [y |-> 2024, m |-> 1, d |-> 9]
Today == [y |-> 2024, m |-> 1, d |-> 10]

InvoicePdf == <<"i","n","v",".","p","d","f">>

\* rf_data: the keyword arguments of one RiskFactor(**rf_data);
\* unknown_key: the dict carries a key that is no attribute of the model
RfData(name, points) ==
    [feature_name |-> name, contribution |-> points, unknown_key |-> FALSE]

\* invoice_data: the keyword arguments of Invoice(**invoice_data); id is the
\* primary key when the caller passes one, which neither route does
InvoiceData(vendor, amount, dt, status, score, level) ==
    [id |-> None, vendor_name |-> vendor, amount |-> amount, invoice_date |-> dt,
     processing_status |-> status, risk_score |-> score, risk_level |-> level,
     original_filename |-> Just(InvoicePdf), unknown_key |-> FALSE]

PipelineArgsWithoutLevel(ingested) ==
    LET r == calculate_risk(ingested)
    IN  [invoice_data |->
            InvoiceData(Just(ingested.vendor_name), ingested.total_amount,
                        ingested.invoice_date, Just("Processed"),
                        Just(r.risk_score), None),
         risk_factors_data |->
            [i \in 1..Len(r.xai_factors) |->
                RfData(Just(r.xai_factors[i].feature_name),
                       Just(r.xai_factors[i].contribution))]]

\* invoice_model_data and xai_factors as the upload route and the monitor build them
PipelineArgs(ingested) ==
    LET r == calculate_risk(ingested)
    IN  [invoice_data |->
            InvoiceData(Just(ingested.vendor_name), ingested.total_amount,
                        ingested.invoice_date, Just("Processed"),
                        Just(r.risk_score), Just(r.risk_level)),
         risk_factors_data |->
            [i \in 1..Len(r.xai_factors) |->
                RfData(Just(r.xai_factors[i].feature_name),
                       Just(r.xai_factors[i].contribution))]]

Ingested(vendor, amount, dt) ==
    [vendor_name |-> vendor, total_amount |-> Just(amount), invoice_date |-> Just(dt)]

NoFactorArgs == PipelineArgs(Ingested(AcmeCorp, Units(500), Tuesday))
OneFactorArgs == PipelineArgs(Ingested(AcmeConsulting, Units(500), Tuesday))
TwoFactorArgs == PipelineArgs(Ingested(AcmeCorp, Units(12000), Saturday))

\* calls that fail: an unknown keyword for Invoice, an unknown keyword for the
\* second RiskFactor, a NULL vendor_name, a NULL contribution in the second factor
BadArgs ==
    { [TwoFactorArgs EXCEPT !.invoice_data.unknown_key = TRUE],
      [TwoFactorArgs EXCEPT !.risk_factors_data[2].unknown_key = TRUE],
      [TwoFactorArgs EXCEPT !.invoice_data.vendor_name = None],
      [TwoFactorArgs EXCEPT !.risk_factors_data[2].contribution = None] }

\* the calls made while both callers and the reader interleave
AddArgs == {NoFactorArgs, TwoFactorArgs} \cup BadArgs

\* a Low invoice dated earlier than the other Low ones
WeekendLowArgs == PipelineArgs(Ingested(AcmeCorp, Units(500), Saturday))

\* a direct call of the add for an invoice that was not scored
UnscoredArgs ==
    [invoice_data |-> InvoiceData(Just(AcmeCorp), Just(Units(500)), Just(Tuesday),
                                  None, None, None),
     risk_factors_data |-> <<>>]

\* the calls that fill the store for the list query
QueryArgs == {NoFactorArgs, OneFactorArgs, TwoFactorArgs, WeekendLowArgs, UnscoredArgs,
              [TwoFactorArgs EXCEPT !.invoice_data.vendor_name = None]}

StoreInit ==
    /\ invoiceTable = {}
    /\ riskFactorTable = {}
    /\ nextInvoiceId = 1
    /\ nextFactorId = 1
    /\ pc = [a \in Adders |-> "idle"]
    /\ args = [a \in Adders |-> None]
    /\ new_invoice = [a \in Adders |-> None]
    /\ caught = [a \in Adders |-> None]
    /\ outcome = [a \in Adders |-> None]
    /\ txInvoices = [a \in Adders |-> {}]
    /\ txFactors = [a \in Adders |-> {}]
    /\ callsMade = 0
    /\ created = <<>>
    /\ rpc = "idle"
    /\ result = None
    /\ loaded = <<>>
    /\ seenIds = {}

\* Invoice(**invoice_data): the object, not yet in any session
NewInvoice(d) ==
    [id |-> None,
     given_id |-> d.id,
     vendor_name |-> d.vendor_name,
     amount |-> d.amount,
     invoice_date |-> d.invoice_date,
     processing_status |-> d.processing_status,
     risk_score |-> d.risk_score,
     risk_level |-> d.risk_level,
     original_filename |-> d.original_filename,
     risk_factors |-> <<>>]

\* RiskFactor(**rf_data)
NewRiskFactor(rf) ==
    [id |-> None, feature_name |-> rf.feature_name, contribution |-> rf.contribution]

\* lines 8-9: the loop over risk_factors_data; it stops at the first
\* RiskFactor(**rf_data) that raises, with the earlier factors appended
RECURSIVE AppendRiskFactors(_, _)
AppendRiskFactors(o, rfs) ==
    IF rfs = <<>> THEN [ok |-> TRUE, obj |-> o]
    ELSE IF Head(rfs).unknown_key THEN [ok |-> FALSE, obj |-> o]
    ELSE AppendRiskFactors(
            [o EXCEPT !.risk_factors = Append(@, NewRiskFactor(Head(rfs)))],
            Tail(rfs))

\* a step fails: the exception is caught at line 14
Fail(a, e) ==
    /\ caught' = [caught EXCEPT ![a] = Just(e)]
    /\ pc' = [pc EXCEPT ![a] = "except"]

\* a caller enters add_invoice_with_risk_factors(invoice_data, risk_factors_data);
\* lines 7-11: build the Invoice, append its RiskFactors, db.session.add.
\* Nothing here touches the database.
Call(a, calls) ==
    /\ pc[a] = "idle"
    /\ callsMade < MaxCalls
    /\ callsMade' = callsMade + 1
    /\ \E x \in calls :
        LET built == AppendRiskFactors(NewInvoice(x.invoice_data), x.risk_factors_data)
        IN  /\ args' = [args EXCEPT ![a] = Just(x)]
            /\ IF x.invoice_data.unknown_key
               THEN Fail(a, "TypeError") /\ UNCHANGED new_invoice
               ELSE IF ~built.ok
               THEN /\ Fail(a, "TypeError")
                    /\ new_invoice' = [new_invoice EXCEPT ![a] = Just(built.obj)]
               ELSE /\ new_invoice' = [new_invoice EXCEPT ![a] = Just(built.obj)]
                    /\ pc' = [pc EXCEPT ![a] = "flush_invoice"]
                    /\ UNCHANGED caught
    /\ UNCHANGED <<outcome, txInvoices, txFactors, created, dbVars, riskVars, ingestVars, readVars>>

\* the column default applied when the attribute is unset
WithDefault(v, default) == IF v = None THEN Just(default) ELSE v

\* the row INSERT INTO invoice writes for an Invoice object
InvoiceRow(o, id) ==
    [id |-> id,
     vendor_name |-> o.vendor_name,
     amount |-> o.amount,
     invoice_date |-> WithDefault(o.invoice_date, Today),
     processing_status |-> WithDefault(o.processing_status, "Pending"),
     risk_score |-> o.risk_score,
     risk_level |-> o.risk_level,
     original_filename |-> o.original_filename]

\* the primary key of the row to insert: the one the object carries, else the
\* next of the table's sequence
PrimaryKey(o) == IF o.given_id # None THEN o.given_id[1] ELSE nextInvoiceId

\* nullable=False on vendor_name and amount (the other two have defaults),
\* and the primary key is unique
InvoiceRowValid(row) ==
    /\ row.vendor_name # None
    /\ row.amount # None
    /\ \A other \in invoiceTable \cup UNION {txInvoices[b] : b \in Adders} :
          other.id # row.id

\* the row INSERT INTO risk_factor writes for a RiskFactor object
FactorRow(f, id, invoice_id) ==
    [id |-> id, feature_name |-> f.feature_name, contribution |-> f.contribution,
     invoice_id |-> invoice_id]

\* nullable=False on feature_name and contribution
FactorRowValid(row) == row.feature_name # None /\ row.contribution # None

FlushInvoiceAutocommit(a) ==
    /\ pc[a] = "flush_invoice"
    /\ LET id == PrimaryKey(new_invoice[a][1])
           row == InvoiceRow(new_invoice[a][1], id)
       IN  \/ /\ InvoiceRowValid(row)
              /\ invoiceTable' = invoiceTable \cup {row}
              /\ nextInvoiceId' = IF id >= nextInvoiceId THEN id + 1 ELSE nextInvoiceId
              /\ new_invoice' = [new_invoice EXCEPT ![a][1].id = Just(id)]
              /\ created' = (id :> args[a][1].risk_factors_data) @@ created
              /\ pc' = [pc EXCEPT ![a] = "flush_factors"]
              /\ UNCHANGED <<caught, txInvoices>>
           \/ /\ ~InvoiceRowValid(row)
              /\ Fail(a, "IntegrityError")
              /\ UNCHANGED <<txInvoices, new_invoice, created, nextInvoiceId,
                             invoiceTable>>
    /\ UNCHANGED <<args, outcome, txFactors, callsMade,
                   riskFactorTable, nextFactorId, riskVars, ingestVars, readVars>>

\* line 12, flush: INSERT INTO invoice, inside the session's transaction
FlushInvoice(a) ==
    /\ pc[a] = "flush_invoice"
    /\ LET id == PrimaryKey(new_invoice[a][1])
           row == InvoiceRow(new_invoice[a][1], id)
       IN  \/ /\ InvoiceRowValid(row)
              /\ txInvoices' = [txInvoices EXCEPT ![a] = @ \cup {row}]
              /\ nextInvoiceId' = IF id >= nextInvoiceId THEN id + 1 ELSE nextInvoiceId
              /\ new_invoice' = [new_invoice EXCEPT ![a][1].id = Just(id)]
              /\ created' = (id :> args[a][1].risk_factors_data) @@ created
              /\ pc' = [pc EXCEPT ![a] = "flush_factors"]
              /\ UNCHANGED caught
           \/ /\ ~InvoiceRowValid(row)
              /\ Fail(a, "IntegrityError")
              /\ UNCHANGED <<txInvoices, new_invoice, created, nextInvoiceId>>
    /\ UNCHANGED <<args, outcome, txFactors, callsMade,
                   invoiceTable, riskFactorTable, nextFactorId, riskVars, ingestVars, readVars>>

\* the risk factors of an object that have no row yet
Unflushed(o) == {i \in 1..Len(o.risk_factors) : o.risk_factors[i].id = None}

\* line 12, flush: INSERT INTO risk_factor for the next factor, in list order
FlushFactor(a) ==
    /\ pc[a] = "flush_factors"
    /\ Unflushed(new_invoice[a][1]) # {}
    /\ LET o == new_invoice[a][1]
           k == CHOOSE i \in Unflushed(o) : \A j \in Unflushed(o) : i <= j
           row == FactorRow(o.risk_factors[k], nextFactorId, o.id[1])
       IN  \/ /\ FactorRowValid(row)
              /\ txFactors' = [txFactors EXCEPT ![a] = @ \cup {row}]
              /\ nextFactorId' = nextFactorId + 1
              /\ new_invoice' = [new_invoice EXCEPT
                                   ![a][1].risk_factors[k].id = Just(nextFactorId)]
              /\ UNCHANGED <<caught, pc>>
           \/ /\ ~FactorRowValid(row)
              /\ Fail(a, "IntegrityError")
              /\ UNCHANGED <<txFactors, new_invoice, nextFactorId>>
    /\ UNCHANGED <<args, outcome, txInvoices, callsMade, created,
                   invoiceTable, riskFactorTable, nextInvoiceId, riskVars, ingestVars, readVars>>

CommitInvoiceOnly(a) ==
    /\ pc[a] = "flush_factors"
    /\ Unflushed(new_invoice[a][1]) = {}
    /\ invoiceTable' = invoiceTable \cup txInvoices[a]
    /\ txInvoices' = [txInvoices EXCEPT ![a] = {}]
    /\ txFactors' = [txFactors EXCEPT ![a] = {}]
    /\ outcome' = [outcome EXCEPT ![a] = Just("returned")]
    /\ pc' = [pc EXCEPT ![a] = "done"]
    /\ UNCHANGED <<args, new_invoice, caught, callsMade, created, riskFactorTable,
                   nextInvoiceId, nextFactorId, riskVars, ingestVars, readVars>>

\* lines 12-13: COMMIT makes the transaction's rows visible at once, and
\* new_invoice is returned; or COMMIT fails
Commit(a) ==
    /\ pc[a] = "flush_factors"
    /\ Unflushed(new_invoice[a][1]) = {}
    /\ \/ /\ invoiceTable' = invoiceTable \cup txInvoices[a]
          /\ riskFactorTable' = riskFactorTable \cup txFactors[a]
          /\ txInvoices' = [txInvoices EXCEPT ![a] = {}]
          /\ txFactors' = [txFactors EXCEPT ![a] = {}]
          /\ outcome' = [outcome EXCEPT ![a] = Just("returned")]
          /\ pc' = [pc EXCEPT ![a] = "done"]
          /\ UNCHANGED caught
       \/ /\ Fail(a, "OperationalError")
          /\ UNCHANGED <<invoiceTable, riskFactorTable, txInvoices, txFactors, outcome>>
    /\ UNCHANGED <<args, new_invoice, callsMade, created,
                   nextInvoiceId, nextFactorId, riskVars, ingestVars, readVars>>

\* the entries of `created` for rows that a rollback discards
Forget(ids) == [i \in (DOMAIN created) \ ids |-> created[i]]

RollbackKeepsRows(a) ==
    /\ pc[a] = "except"
    /\ invoiceTable' = invoiceTable \cup txInvoices[a]
    /\ riskFactorTable' = riskFactorTable \cup txFactors[a]
    /\ txInvoices' = [txInvoices EXCEPT ![a] = {}]
    /\ txFactors' = [txFactors EXCEPT ![a] = {}]
    /\ pc' = [pc EXCEPT ![a] = "raise"]
    /\ UNCHANGED <<args, new_invoice, caught, outcome, callsMade, created,
                   nextInvoiceId, nextFactorId, riskVars, ingestVars, readVars>>

RollbackEverySession(a) ==
    /\ pc[a] = "except"
    /\ created' = Forget({row.id : row \in UNION {txInvoices[b] : b \in Adders}})
    /\ txInvoices' = [b \in Adders |-> {}]
    /\ txFactors' = [b \in Adders |-> {}]
    /\ pc' = [pc EXCEPT ![a] = "raise"]
    /\ UNCHANGED <<args, new_invoice, caught, outcome, callsMade,
                   dbVars, riskVars, ingestVars, readVars>>

\* line 15: db.session.rollback() discards the rows of the session's transaction
Rollback(a) ==
    /\ pc[a] = "except"
    /\ created' = Forget({row.id : row \in txInvoices[a]})
    /\ txInvoices' = [txInvoices EXCEPT ![a] = {}]
    /\ txFactors' = [txFactors EXCEPT ![a] = {}]
    /\ pc' = [pc EXCEPT ![a] = "raise"]
    /\ UNCHANGED <<args, new_invoice, caught, outcome, callsMade,
                   dbVars, riskVars, ingestVars, readVars>>

RaiseGeneric(a) ==
    /\ pc[a] = "raise"
    /\ outcome' = [outcome EXCEPT ![a] = Just("Exception")]
    /\ pc' = [pc EXCEPT ![a] = "done"]
    /\ UNCHANGED <<args, new_invoice, caught, txInvoices, txFactors, callsMade,
                   created, dbVars, riskVars, ingestVars, readVars>>

\* line 16: raise e
Raise(a) ==
    /\ pc[a] = "raise"
    /\ outcome' = [outcome EXCEPT ![a] = caught[a]]
    /\ pc' = [pc EXCEPT ![a] = "done"]
    /\ UNCHANGED <<args, new_invoice, caught, txInvoices, txFactors, callsMade,
                   created, dbVars, riskVars, ingestVars, readVars>>

\* the caller's request ends: its locals and its session are gone
Finish(a) ==
    /\ pc[a] = "done"
    /\ pc' = [pc EXCEPT ![a] = "idle"]
    /\ args' = [args EXCEPT ![a] = None]
    /\ new_invoice' = [new_invoice EXCEPT ![a] = None]
    /\ caught' = [caught EXCEPT ![a] = None]
    /\ outcome' = [outcome EXCEPT ![a] = None]
    /\ UNCHANGED <<txInvoices, txFactors, callsMade, created,
                   dbVars, riskVars, ingestVars, readVars>>

DeleteInvoiceWithoutCascade ==
    /\ \E row \in invoiceTable : invoiceTable' = invoiceTable \ {row}
    /\ UNCHANGED <<riskFactorTable, nextInvoiceId, nextFactorId,
                   addVars, riskVars, ingestVars, readVars>>

\* models.py line 14, cascade='all, delete-orphan': db.session.delete(invoice)
\* followed by commit() deletes the rows of invoice.risk_factors and the
\* invoice row in one transaction.  No operation of the repository deletes an
\* invoice; this is the delete the relationship declares.
DeleteInvoice ==
    /\ \E row \in invoiceTable :
          /\ invoiceTable' = invoiceTable \ {row}
          /\ riskFactorTable' = {f \in riskFactorTable : f.invoice_id # row.id}
    /\ UNCHANGED <<nextInvoiceId, nextFactorId, addVars, riskVars, ingestVars, readVars>>

-----------------------------------------------------------------------------
(* The read side of services/database_ops.py.  The reader is a request of  *)
(* its own; each of its SELECT statements sees the rows committed at that  *)
(* moment, and another session may commit between two of its statements.   *)

\* a set as a sequence, in some fixed order
RECURSIVE SeqOf(_)
SeqOf(S) ==
    IF S = {} THEN <<>>
    ELSE LET x == CHOOSE y \in S : TRUE IN <<x>> \o SeqOf(S \ {x})

\* the rows of a table in ascending id order
RECURSIVE ById(_)
ById(S) ==
    IF S = {} THEN <<>>
    ELSE LET x == CHOOSE y \in S : \A z \in S : y.id <= z.id
         IN  <<x>> \o ById(S \ {x})

\* every order in which a statement may return the rows it selected
Orders(rows) ==
    {[i \in 1..Len(rows) |-> rows[p[i]]] : p \in Permutations(1..Len(rows))}

\* Python truthiness of an optional string or number
Truthy(x, empty) == x # None /\ x[1] # empty

SubqueryIdsOverJoin ==
    LET fs == SeqOf(riskFactorTable) IN [i \in 1..Len(fs) |-> fs[i].invoice_id]

\* line 26: SELECT DISTINCT invoice.id FROM invoice
SubqueryIds == SeqOf({row.id : row \in invoiceTable})

\* line 27: invoice JOIN subquery ON invoice.id = subquery.id,
\* one output row for each pair that matches
RECURSIVE JoinOnId(_, _)
JoinOnId(rows, ids) ==
    IF rows = <<>> THEN <<>>
    ELSE LET r == Head(rows)
             Match(i) == i = r.id
             hits == SelectSeq(ids, Match)
         IN  [k \in 1..Len(hits) |-> r] \o JoinOnId(Tail(rows), ids)

\* lines 29-30: if risk_level: filter(Invoice.risk_level == risk_level)
FilterLevel(rows, risk_level) ==
    IF Truthy(risk_level, "")
    THEN LET Keep(r) == r.risk_level = risk_level IN SelectSeq(rows, Keep)
    ELSE rows

DESC == <<"d","e","s","c">>
ASC == <<"a","s","c">>

DateKey(row) == ToOrdinal(row.invoice_date[1])

OrderedAlwaysAscending(rows, sort_by_date) ==
    IF Truthy(sort_by_date, <<>>)
    THEN \A i \in 1..(Len(rows) - 1) : DateKey(rows[i]) <= DateKey(rows[i + 1])
    ELSE TRUE

\* lines 32-36: the order_by, if any, that sort_by_date asks for
Ordered(rows, sort_by_date) ==
    IF Truthy(sort_by_date, <<>>)
    THEN IF Lower(sort_by_date[1]) = DESC
         THEN \A i \in 1..(Len(rows) - 1) : DateKey(rows[i]) >= DateKey(rows[i + 1])
         ELSE \A i \in 1..(Len(rows) - 1) : DateKey(rows[i]) <= DateKey(rows[i + 1])
    ELSE TRUE

\* lines 20-38: every list query.all() may return
get_all_invoices(risk_level, sort_by_date) ==
    LET joined == JoinOnId(SeqOf(invoiceTable), SubqueryIds)
        kept == FilterLevel(joined, risk_level)
    IN  {rows \in Orders(kept) : Ordered(rows, sort_by_date)}

LevelArgs == {None, Just("Low"), Just("Medium"), Just("High"), Just("high"), Just("")}

SortArgs == {None, Just(ASC), Just(DESC), Just(<<"D","e","s","c">>)}

\* lines 40-41: Invoice.query.get(invoice_id)
get_invoice_by_id(invoice_id) ==
    ById({row \in invoiceTable : row.id = invoice_id})

\* the list route (and the risk filter route): get_all_invoices(...)
GetAllInvoices(levels, sorts) ==
    /\ rpc = "idle"
    /\ \E risk_level \in levels, sort_by_date \in sorts :
         \E rows \in get_all_invoices(risk_level, sort_by_date) :
            result' = Just([op |-> "list", risk_level |-> risk_level,
                            sort_by_date |-> sort_by_date, rows |-> rows])
    /\ seenIds' = {row.id : row \in invoiceTable}
    /\ loaded' = <<>>
    /\ rpc' = "loading"
    /\ UNCHANGED <<dbVars, addVars, riskVars, ingestVars>>

\* the narrative and PDF routes: get_invoice_by_id(invoice_id)
GetInvoiceById ==
    /\ rpc = "idle"
    /\ \E invoice_id \in 1..nextInvoiceId :
        /\ result' = Just([op |-> "get", invoice_id |-> invoice_id,
                           rows |-> get_invoice_by_id(invoice_id)])
        /\ seenIds' = {row.id : row \in {x \in invoiceTable : x.id = invoice_id}}
    /\ loaded' = <<>>
    /\ rpc' = "loading"
    /\ UNCHANGED <<dbVars, addVars, riskVars, ingestVars>>

\* Invoice.risk_factors (lazy=True): the first access, here by the response
\* schema or by generate_narrative, runs
\* SELECT ... FROM risk_factor WHERE invoice_id = :id
LoadRiskFactors ==
    /\ rpc = "loading"
    /\ Len(loaded) < Len(result[1].rows)
    /\ LET row == result[1].rows[Len(loaded) + 1]
       IN  loaded' = Append(loaded,
                        ById({f \in riskFactorTable : f.invoice_id = row.id}))
    /\ UNCHANGED <<rpc, result, seenIds, dbVars, addVars, riskVars, ingestVars>>

\* round(n / d, 2) in hundredths, ties to even (d > 0, n >= 0)
RoundHundredths(n, d) ==
    LET q == (100 * n) \div d
        twice == 2 * ((100 * n) % d)
    IN  IF twice > d \/ (twice = d /\ q % 2 = 1) THEN q + 1 ELSE q

\* line 44: SELECT count(invoice.id)
SummaryCount ==
    /\ rpc = "idle"
    /\ result' = Just([op |-> "summary", total_invoices |-> Cardinality(invoiceTable),
                        seen_by_count |-> {row.id : row \in invoiceTable}])
    /\ seenIds' = {row.id : row \in invoiceTable}
    /\ rpc' = "summary_levels"
    /\ UNCHANGED <<loaded, dbVars, addVars, riskVars, ingestVars>>

\* lines 46-51: SELECT risk_level, count(id) GROUP BY risk_level, NULL dropped
SummaryLevels ==
    /\ rpc = "summary_levels"
    /\ LET levels == {row.risk_level[1] :
                        row \in {x \in invoiceTable : x.risk_level # None}}
           counts == [l \in levels |->
                        Cardinality({x \in invoiceTable : x.risk_level = Just(l)})]
       IN  result' = Just([op |-> "summary",
                           total_invoices |-> result[1].total_invoices,
                           seen_by_count |-> result[1].seen_by_count,
                           invoices_per_risk_level |-> counts,
                           seen_by_levels |-> {row.id : row \in invoiceTable}])
    /\ seenIds' = {row.id : row \in invoiceTable}
    /\ rpc' = "summary_avg"
    /\ UNCHANGED <<loaded, dbVars, addVars, riskVars, ingestVars>>

\* SQL sum() and max() over the values of a column, one per row
RECURSIVE SumSeq(_)
SumSeq(vals) == IF vals = <<>> THEN 0 ELSE Head(vals) + SumSeq(Tail(vals))

RECURSIVE MaxSeq(_)
MaxSeq(vals) ==
    IF Len(vals) = 1 THEN Head(vals)
    ELSE LET m == MaxSeq(Tail(vals)) IN IF Head(vals) > m THEN Head(vals) ELSE m

ScoreColumn(S) == LET rows == SeqOf(S) IN [i \in 1..Len(rows) |-> rows[i].risk_score[1]]

AmountColumn(S) == LET rows == SeqOf(S) IN [i \in 1..Len(rows) |-> rows[i].amount[1]]

SummaryAverageOverAll ==
    /\ rpc = "summary_avg"
    /\ LET scored == {x \in invoiceTable : x.risk_score # None}
           avg == IF scored = {} THEN 0
                  ELSE RoundHundredths(SumSeq(ScoreColumn(scored)),
                                       Cardinality(invoiceTable))
       IN  result' = Just([op |-> "summary",
                           total_invoices |-> result[1].total_invoices,
                           seen_by_count |-> result[1].seen_by_count,
                           invoices_per_risk_level |->
                               result[1].invoices_per_risk_level,
                           seen_by_levels |-> result[1].seen_by_levels,
                           average_risk_score |-> avg])
    /\ seenIds' = {row.id : row \in invoiceTable}
    /\ rpc' = "done"
    /\ UNCHANGED <<loaded, dbVars, addVars, riskVars, ingestVars>>

\* lines 53-59: SELECT avg(risk_score), rounded to two places, 0.0 when NULL
SummaryAverage ==
    /\ rpc = "summary_avg"
    /\ LET scored == {x \in invoiceTable : x.risk_score # None}
           avg == IF scored = {} THEN 0
                  ELSE RoundHundredths(SumSeq(ScoreColumn(scored)), Cardinality(scored))
       IN  result' = Just([op |-> "summary",
                           total_invoices |-> result[1].total_invoices,
                           seen_by_count |-> result[1].seen_by_count,
                           invoices_per_risk_level |->
                               result[1].invoices_per_risk_level,
                           seen_by_levels |-> result[1].seen_by_levels,
                           average_risk_score |-> avg])
    /\ seenIds' = {row.id : row \in invoiceTable}
    /\ rpc' = "done"
    /\ UNCHANGED <<loaded, dbVars, addVars, riskVars, ingestVars>>

\* lines 61-78: avg and max of the vendor's amounts, the current invoice left
\* out when its id is truthy; the average is kept as the fraction sum / count
get_vendor_statistics(vendor_name, current_invoice_id) ==
    LET ofVendor == {x \in invoiceTable : x.vendor_name = Just(vendor_name)}
        rows == IF Truthy(current_invoice_id, 0)
                THEN {x \in ofVendor : x.id # current_invoice_id[1]}
                ELSE ofVendor
        total == SumSeq(AmountColumn(rows))
    IN  [rows |-> {x.id : x \in rows},
         avg_amount |-> IF rows = {} \/ total = 0
                        THEN [sum |-> 0, count |-> 1]
                        ELSE [sum |-> total, count |-> Cardinality(rows)],
         max_amount |-> IF rows = {} THEN 0 ELSE MaxSeq(AmountColumn(rows))]

VendorArgs == {AcmeCorp, AcmeConsulting}

\* generate_narrative's query: get_vendor_statistics(vendor_name, current_invoice_id)
GetVendorStatistics(ids) ==
    /\ rpc = "idle"
    /\ \E vendor_name \in VendorArgs, current_invoice_id \in ids :
         LET stats == get_vendor_statistics(vendor_name, current_invoice_id)
         IN  /\ result' = Just([op |-> "vendor", vendor_name |-> vendor_name,
                                current_invoice_id |-> current_invoice_id,
                                avg_amount |-> stats.avg_amount,
                                max_amount |-> stats.max_amount])
             /\ seenIds' = stats.rows
    /\ rpc' = "done"
    /\ UNCHANGED <<loaded, dbVars, addVars, riskVars, ingestVars>>

\* the reader's request ends
FinishRead ==
    /\ \/ rpc = "done"
       \/ rpc = "loading" /\ Len(loaded) = Len(result[1].rows)
    /\ rpc' = "idle"
    /\ result' = None
    /\ loaded' = <<>>
    /\ seenIds' = {}
    /\ UNCHANGED <<dbVars, addVars, riskVars, ingestVars>>

-----------------------------------------------------------------------------
(* services/narrative_service.py and the routes that look one invoice up.  *)

\* characters of a model reply: newline, tab, no-break space (U+00A0), the
\* zero-width characters U+200B, U+200C, U+200D, U+FEFF, and the word joiner
\* U+2060, which is invisible and is neither whitespace nor in the class removed
NL == "\n"
TAB == "\t"
NBSP == "nbsp"
ZWSP == "zwsp"
ZWNJ == "zwnj"
ZWJ == "zwj"
BOM == "bom"
WJ == "wj"

\* str.isspace(), \s
Whitespace == {" ", NL, TAB, NBSP}

\* the class [U+200B-U+200D, U+FEFF] of line 122
ZeroWidth == {ZWSP, ZWNJ, ZWJ, BOM}

\* the characters of text at the indices in K, in order
RECURSIVE KeepAt(_, _, _)
KeepAt(text, K, i) ==
    IF i > Len(text) THEN <<>>
    ELSE (IF i \in K THEN <<text[i]>> ELSE <<>>) \o KeepAt(text, K, i + 1)

\* line 122: re.sub of the zero-width class by ''
RemoveZeroWidth(text) ==
    KeepAt(text, {i \in 1..Len(text) : text[i] \notin ZeroWidth}, 1)

\* line 124: re.sub(r'(?<=\S)\n(?=\S)', '', text)
MergeSplitCharacters(text) ==
    KeepAt(text,
           {i \in 1..Len(text) :
               ~(/\ text[i] = NL
                 /\ i > 1 /\ text[i - 1] \notin Whitespace
                 /\ i < Len(text) /\ text[i + 1] \notin Whitespace)}, 1)

\* lines 126 and 128: a run of c becomes a single c
CollapseRuns(text, c) ==
    KeepAt(text, {i \in 1..Len(text) : ~(text[i] = c /\ i > 1 /\ text[i - 1] = c)}, 1)

\* str.strip()
Strip(text) ==
    LET solid == {i \in 1..Len(text) : text[i] \notin Whitespace}
    IN  IF solid = {} THEN <<>>
        ELSE LET first == CHOOSE i \in solid : \A j \in solid : i <= j
                 last == CHOOSE i \in solid : \A j \in solid : i >= j
             IN  SubSeq(text, first, last)

CleanMergesFirst(raw_text) ==
    IF ~Truthy(raw_text, <<>>) THEN <<>>
    ELSE Strip(CollapseRuns(CollapseRuns(
                 RemoveZeroWidth(MergeSplitCharacters(raw_text[1])), NL), " "))

\* lines 115-129; raw_text is the content of the reply, None when it has none
clean_narrative_text(raw_text) ==
    IF ~Truthy(raw_text, <<>>) THEN <<>>
    ELSE Strip(CollapseRuns(CollapseRuns(
                 MergeSplitCharacters(RemoveZeroWidth(raw_text[1])), NL), " "))

\* str(n) for n >= 0
RECURSIVE Digits(_)
Digits(n) ==
    LET d == <<"0","1","2","3","4","5","6","7","8","9">>[(n % 10) + 1]
    IN  IF n < 10 THEN <<d>> ELSE Append(Digits(n \div 10), d)

\* line 296: the string returned when anything inside the try raised
FallbackHead ==
    <<"N","a","r","r","a","t","i","v","e"," ","g","e","n","e","r","a","t",
      "i","o","n"," ","f","a","i","l","e","d"," ","d","u","e"," ","t","o",
      " ","a","n"," ","i","n","t","e","r","n","a","l"," ","e","r","r","o",
      "r","."," ","P","l","e","a","s","e"," ","r","e","v","i","e","w"," ",
      "i","n","v","o","i","c","e"," ">>

FallbackTail == <<" ","m","a","n","u","a","l","l","y",".">>

Fallback(id) == FallbackHead \o Digits(id) \o FallbackTail

\* the api_key of the request body: absent, empty, or a key
ApiKeys == {None, Just(<<>>), Just(<<"k">>)}

\* what completion(...) gives: it raises, or it returns a reply whose first
\* choice has this content
ModelContents ==
    { None,
      Just(<<>>),
      Just(<<" ", NL, TAB, NBSP>>),
      Just(<<ZWSP, BOM>>),
      Just(<<" ", ZWNJ, NL, ZWJ, " ">>),
      Just(<<WJ>>),
      Just(<<"O", "K">>),
      Just(<<NL, " ", "O", NL, "K", ZWSP, " ", " ", "a", NL, NL, " ", "b", NBSP>>) }

ModelReplies ==
    {[raised |-> Just(e), content |-> None] : e \in {"APIError", "APIConnectionError"}}
        \cup {[raised |-> None, content |-> c] : c \in ModelContents}

\* the response of a route that looks an invoice up, so far
Response(op, invoice_id, rows, status) ==
    [op |-> op, invoice_id |-> invoice_id, rows |-> rows, status |-> status,
     variance_pct |-> None, error |-> None, risk_details |-> None,
     model_called |-> FALSE, content |-> None, narrative |-> None]

NarrativePostNoLookupCheck ==
    /\ rpc = "idle"
    /\ \E api_key \in ApiKeys, invoice_id \in 0..nextInvoiceId :
         LET invoice == get_invoice_by_id(invoice_id)
         IN  /\ seenIds' = {row.id : row \in {x \in invoiceTable : x.id = invoice_id}}
             /\ IF ~Truthy(api_key, <<>>)
                THEN /\ result' = Just(Response("narrative", invoice_id, <<>>, 400))
                     /\ rpc' = "done"
                ELSE IF invoice = <<>>
                THEN /\ result' = Just(Response("narrative", invoice_id, invoice, 500))
                     /\ rpc' = "done"
                ELSE /\ result' = Just(Response("narrative", invoice_id, invoice, 0))
                     /\ rpc' = "narrative_stats"
    /\ loaded' = <<>>
    /\ UNCHANGED <<dbVars, addVars, riskVars, ingestVars>>

\* invoice_routes.py lines 134-140: 400 without an api_key, 404 without the
\* invoice, else generate_narrative(invoice, api_key)
NarrativePost ==
    /\ rpc = "idle"
    /\ \E api_key \in ApiKeys, invoice_id \in 0..nextInvoiceId :
         LET invoice == get_invoice_by_id(invoice_id)
         IN  IF ~Truthy(api_key, <<>>)
             THEN /\ result' = Just(Response("narrative", invoice_id, <<>>, 400))
                  /\ seenIds' = {}
                  /\ rpc' = "done"
             ELSE /\ seenIds' = {row.id : row \in {x \in invoiceTable : x.id = invoice_id}}
                  /\ IF invoice = <<>>
                     THEN /\ result' = Just(Response("narrative", invoice_id, invoice, 404))
                          /\ rpc' = "done"
                     ELSE /\ result' = Just(Response("narrative", invoice_id, invoice, 0))
                          /\ rpc' = "narrative_stats"
    /\ loaded' = <<>>
    /\ UNCHANGED <<dbVars, addVars, riskVars, ingestVars>>

\* narrative_service.py line 148: the variance in percent as the fraction
\* num / den, 0 when the average is not above 0
Variance(amount, avg_amount) ==
    IF avg_amount.sum > 0
    THEN [num |-> (amount * avg_amount.count - avg_amount.sum) * 100,
          den |-> avg_amount.sum]
    ELSE [num |-> 0, den |-> 1]

\* narrative_service.py lines 138-148: the vendor statistics query, which
\* returns or raises, and the variance from its average; lines 294-296 turn
\* what the query raises into the fallback string
NarrativeVendorStatistics ==
    /\ rpc = "narrative_stats"
    /\ LET invoice == result[1].rows[1]
           vendor_stats == get_vendor_statistics(invoice.vendor_name[1], Just(invoice.id))
       IN  \/ /\ result' = Just([result[1] EXCEPT
                                    !.variance_pct =
                                        Just(Variance(invoice.amount[1],
                                                      vendor_stats.avg_amount))])
              /\ rpc' = "narrative_factors"
           \/ /\ result' = Just([result[1] EXCEPT
                                    !.status = 200,
                                    !.error = Just("OperationalError"),
                                    !.narrative = Just(Fallback(invoice.id))])
              /\ rpc' = "done"
    /\ UNCHANGED <<loaded, seenIds, dbVars, addVars, riskVars, ingestVars>>

RiskContextMatchesAmount(risk_factors) ==
    LET risk_drivers == [i \in 1..Len(risk_factors) |-> risk_factors[i].feature_name[1]]
        drivers_text == IF risk_drivers # <<>> THEN Join(risk_drivers)
                        ELSE <<"N","o","n","e"," ","i","d","e","n","t","i","f","i","e","d">>
        keyword == [amount_deviation |-> <<"a","m","o","u","n","t">>,
                    new_vendor |-> <<"n","e","w","_","v","e","n","d","o","r">>,
                    duplicate |-> <<"d","u","p","l","i","c","a","t","e">>,
                    unusual_timing |-> <<"u","n","u","s","u","a","l","_","t","i","m","i","n","g">>]
        risk_context ==
            {k \in DOMAIN keyword : Contains(keyword[k], Lower(drivers_text))}
    IN  IF risk_context # {} THEN risk_context ELSE {"no_specific_risk_patterns"}

\* lines 170-182 and 218: the names of the factors joined by ', ' (or 'None
\* identified'), the risk-context sentences whose keyword the lower-cased text
\* contains, and in the prompt these sentences, or the neutral clause when
\* there is none
RiskContext(risk_factors) ==
    LET risk_drivers == [i \in 1..Len(risk_factors) |-> risk_factors[i].feature_name[1]]
        drivers_text == IF risk_drivers # <<>> THEN Join(risk_drivers)
                        ELSE <<"N","o","n","e"," ","i","d","e","n","t","i","f","i","e","d">>
        keyword == [amount_deviation |-> <<"a","m","o","u","n","t","_","d","e","v","i","a","t","i","o","n">>,
                    new_vendor |-> <<"n","e","w","_","v","e","n","d","o","r">>,
                    duplicate |-> <<"d","u","p","l","i","c","a","t","e">>,
                    unusual_timing |-> <<"u","n","u","s","u","a","l","_","t","i","m","i","n","g">>]
        risk_context ==
            {k \in DOMAIN keyword : Contains(keyword[k], Lower(drivers_text))}
    IN  IF risk_context # {} THEN risk_context ELSE {"no_specific_risk_patterns"}

\* line 170: invoice.risk_factors, loaded on this first access, and the risk
\* context of lines 171-182
NarrativeRiskFactors ==
    /\ rpc = "narrative_factors"
    /\ LET risk_factors == ById({f \in riskFactorTable :
                                    f.invoice_id = result[1].rows[1].id})
       IN  /\ loaded' = <<risk_factors>>
           /\ result' = Just([result[1] EXCEPT
                                 !.risk_details = Just(RiskContext(risk_factors))])
    /\ rpc' = "narrative_model"
    /\ UNCHANGED <<seenIds, dbVars, addVars, riskVars, ingestVars>>

NarrativeModelReturnsEmpty ==
    /\ rpc = "narrative_model"
    /\ \E reply \in ModelReplies :
         LET narrative == clean_narrative_text(reply.content)
             text == IF reply.raised # None
                     THEN Fallback(result[1].rows[1].id)
                     ELSE narrative
         IN  result' = Just([result[1] EXCEPT
                                !.status = 200, !.model_called = TRUE,
                                !.content = reply.content, !.narrative = Just(text)])
    /\ rpc' = "done"
    /\ UNCHANGED <<loaded, seenIds, dbVars, addVars, riskVars, ingestVars>>

NarrativeModelMarkingInvoice ==
    /\ rpc = "narrative_model"
    /\ \E reply \in ModelReplies :
         LET narrative == clean_narrative_text(reply.content)
             text == IF reply.raised # None \/ narrative = <<>>
                     THEN Fallback(result[1].rows[1].id)
                     ELSE narrative
         IN  result' = Just([result[1] EXCEPT
                                !.status = 200, !.model_called = TRUE,
                                !.content = reply.content, !.narrative = Just(text)])
    /\ invoiceTable' =
          {IF row.id = result[1].rows[1].id
           THEN [row EXCEPT !.processing_status = Just("Reviewed")]
           ELSE row : row \in invoiceTable}
    /\ rpc' = "done"
    /\ UNCHANGED <<loaded, seenIds, riskFactorTable, nextInvoiceId, nextFactorId,
                   addVars, riskVars, ingestVars>>

\* lines 277-296 and invoice_routes.py lines 143-144: the model call, the
\* sanitized content returned when it is not empty, the fallback string when
\* the call raised or the content is empty
NarrativeModel ==
    /\ rpc = "narrative_model"
    /\ \E reply \in ModelReplies :
         LET narrative == clean_narrative_text(reply.content)
             text == IF reply.raised # None \/ narrative = <<>>
                     THEN Fallback(result[1].rows[1].id)
                     ELSE narrative
         IN  result' = Just([result[1] EXCEPT
                                !.status = 200, !.model_called = TRUE,
                                !.content = reply.content, !.narrative = Just(text)])
    /\ rpc' = "done"
    /\ UNCHANGED <<loaded, seenIds, dbVars, addVars, riskVars, ingestVars>>

\* invoice_routes.py lines 108-121: 404 without the invoice, without its file
\* name or without the file itself, else the file
PdfGet ==
    /\ rpc = "idle"
    /\ \E invoice_id \in 0..nextInvoiceId, on_disk \in BOOLEAN :
         LET invoice == get_invoice_by_id(invoice_id)
             found == /\ invoice # <<>>
                      /\ Truthy(invoice[1].original_filename, <<>>)
                      /\ on_disk
         IN  /\ result' = Just(Response("pdf", invoice_id, invoice,
                                        IF found THEN 200 ELSE 404))
             /\ seenIds' = {row.id : row \in {x \in invoiceTable : x.id = invoice_id}}
    /\ loaded' = <<>>
    /\ rpc' = "done"
    /\ UNCHANGED <<dbVars, addVars, riskVars, ingestVars>>

-----------------------------------------------------------------------------
(* ingestion/ingestion.py                                                  *)

\* a value as json.loads returns it.  t names its type; num is a number in
\* hundredths (1 or 0 for a bool), str the characters of a string, items the
\* elements of an array, fields the members of an object by key.  "bigint" is
\* an integer literal too large for a float.
Json(t, num, str, items, fields) ==
    [t |-> t, num |-> num, str |-> str, items |-> items, fields |-> fields]

JNull == Json("null", 0, <<>>, <<>>, <<>>)
JBool(b) == Json("bool", IF b THEN 1 ELSE 0, <<>>, <<>>, <<>>)
JNumber(hundredths) == Json("number", hundredths, <<>>, <<>>, <<>>)
JBigInt == Json("bigint", 0, <<>>, <<>>, <<>>)
JString(s) == Json("string", 0, s, <<>>, <<>>)
JArray(items) == Json("array", 0, <<>>, items, <<>>)
JObject(fields) == Json("object", 0, <<>>, <<>>, fields)

INVOICE_ID == <<"i","n","v","o","i","c","e","_","i","d">>
VENDOR_NAME == <<"v","e","n","d","o","r","_","n","a","m","e">>
INVOICE_DATE == <<"i","n","v","o","i","c","e","_","d","a","t","e">>
TOTAL_AMOUNT == <<"t","o","t","a","l","_","a","m","o","u","n","t">>

\* line 71
required_fields == <<INVOICE_ID, VENDOR_NAME, INVOICE_DATE, TOTAL_AMOUNT>>

\* the fixed parts of the messages of lines 22, 26, 68, 74, 79, 92
EmptyPdfMessage ==
    <<"P","D","F"," ","i","s"," ","e","m","p","t","y"," ","o","r"," ","c","o",
      "n","t","a","i","n","s"," ","n","o"," ","e","x","t","r","a","c","t","a",
      "b","l","e"," ","t","e","x","t",".">>

PdfMessage ==
    <<"C","o","u","l","d"," ","n","o","t"," ","p","r","o","c","e","s","s"," ",
      "P","D","F"," ","f","i","l","e"," ","s","t","r","e","a","m",":"," ">>

ModelMessage ==
    <<"A","I"," ","m","o","d","e","l"," ","f","a","i","l","e","d"," ","t","o",
      " ","e","x","t","r","a","c","t"," ","d","a","t","a"," ","f","r","o","m",
      " ","t","h","e"," ","i","n","v","o","i","c","e","."," ","E","r","r","o",
      "r",":"," ">>

MissingMessage ==
    <<"A","I"," ","m","o","d","e","l"," ","d","i","d"," ","n","o","t"," ","r",
      "e","t","u","r","n"," ","a","l","l"," ","r","e","q","u","i","r","e","d",
      " ","f","i","e","l","d","s","."," ","M","i","s","s","i","n","g",":",
      " ">>

AmountMessage ==
    <<"I","n","v","a","l","i","d"," ","a","m","o","u","n","t"," ","f","o","r",
      "m","a","t"," ","r","e","t","u","r","n","e","d"," ","b","y"," ","A","I",
      ":"," ">>

DateMessage ==
    <<"I","n","v","a","l","i","d"," ","d","a","t","e"," ","f","o","r","m","a",
      "t"," ","r","e","t","u","r","n","e","d"," ","b","y"," ","A","I",":",
      " ">>

DateMessageEnd == <<"."," ","C","o","u","l","d"," ","n","o","t"," ","p","a","r","s","e",".">>

DigitChars == <<"0","1","2","3","4","5","6","7","8","9">>

IsDigit(c) == \E i \in 1..10 : DigitChars[i] = c

DigitValue(c) == (CHOOSE i \in 1..10 : DigitChars[i] = c) - 1

AllDigits(text) == \A i \in 1..Len(text) : IsDigit(text[i])

\* int() of a run of digits
RECURSIVE NumberOf(_)
NumberOf(text) ==
    IF text = <<>> THEN 0
    ELSE 10 * NumberOf(SubSeq(text, 1, Len(text) - 1)) + DigitValue(text[Len(text)])

\* str(value) inside an f-string, for the values drawn
Str(value) ==
    CASE value.t = "string" -> value.str
      [] value.t = "null" -> <<"N","o","n","e">>
      [] value.t = "bool" -> IF value.num = 1 THEN <<"T","r","u","e">>
                             ELSE <<"F","a","l","s","e">>
      [] value.t = "array" -> <<"[","]">>
      [] value.t = "object" -> <<"{","}">>
      [] OTHER ->
            LET n == IF value.num < 0 THEN 0 - value.num ELSE value.num
                sign == IF value.num < 0 THEN <<"-">> ELSE <<>>
                frac == n % 100
            IN  sign \o Digits(n \div 100)
                  \o (IF frac = 0 THEN <<>>
                      ELSE IF frac % 10 = 0 THEN <<".">> \o Digits(frac \div 10)
                      ELSE IF frac < 10 THEN <<".", "0">> \o Digits(frac)
                      ELSE <<".">> \o Digits(frac))

\* what a call ends with: a returned value, or an exception of a type with a
\* message; model_called tells whether client.chat.completions.create ran
Returns(value, model_called) ==
    [raised |-> None, value |-> Just(value), model_called |-> model_called]

Raises(type, message, model_called) ==
    [raised |-> Just([type |-> type, message |-> message]), value |-> None,
     model_called |-> model_called]

\* the parts of text between the occurrences of sep
RECURSIVE SplitOn(_, _)
SplitOn(text, sep) ==
    IF \E i \in 1..Len(text) : text[i] = sep
    THEN LET i == CHOOSE k \in 1..Len(text) :
                      text[k] = sep /\ \A j \in 1..(k - 1) : text[j] # sep
         IN  <<SubSeq(text, 1, i - 1)>> \o SplitOn(SubSeq(text, i + 1, Len(text)), sep)
    ELSE <<text>>

\* the number of whitespace characters text starts with
RECURSIVE LeadingSpace(_)
LeadingSpace(text) ==
    IF text # <<>> /\ text[1] \in Whitespace THEN 1 + LeadingSpace(Tail(text)) ELSE 0

\* strptime directives: %Y is four digits; %m is 1..12 and %d is 1..31 in one
\* or two digits (%d also as a space and a digit)
MatchesYear(part) == Len(part) = 4 /\ AllDigits(part)

MatchesMonth(part) ==
    Len(part) \in {1, 2} /\ AllDigits(part) /\ NumberOf(part) \in 1..12

MatchesDay(part) ==
    \/ Len(part) \in {1, 2} /\ AllDigits(part) /\ NumberOf(part) \in 1..31
    \/ Len(part) = 2 /\ part[1] = " " /\ IsDigit(part[2]) /\ part[2] # "0"

DayOf(part) == IF part[1] = " " THEN NumberOf(Tail(part)) ELSE NumberOf(part)

\* %b: the abbreviated month names, matched without regard to case
MonthAbbreviations ==
    << <<"j","a","n">>, <<"f","e","b">>, <<"m","a","r">>, <<"a","p","r">>,
       <<"m","a","y">>, <<"j","u","n">>, <<"j","u","l">>, <<"a","u","g">>,
       <<"s","e","p">>, <<"o","c","t">>, <<"n","o","v">>, <<"d","e","c">> >>

\* datetime(y, m, d).date(), or None for a day the month does not have and
\* for the year 0
MakeDate(y, m, d) ==
    IF y >= 1 /\ d <= DaysInMonth(y, m) THEN Just([y |-> y, m |-> m, d |-> d])
    ELSE None

\* the three directives of a format whose fields are separated by '-'
Dashed(text, year_at, month_at, day_at) ==
    LET parts == SplitOn(text, "-")
    IN  IF /\ Len(parts) = 3
           /\ MatchesYear(parts[year_at])
           /\ MatchesMonth(parts[month_at])
           /\ MatchesDay(parts[day_at])
        THEN MakeDate(NumberOf(parts[year_at]), NumberOf(parts[month_at]),
                      DayOf(parts[day_at]))
        ELSE None

\* '%b %d, %Y': a blank of the format matches one or more whitespace characters
Spelled(text) ==
    LET halves == SplitOn(text, ",")
    IN  IF Len(halves) # 2 \/ Len(halves[1]) < 5 THEN None
        ELSE LET name == Lower(SubSeq(halves[1], 1, 3))
                 rest == SubSeq(halves[1], 4, Len(halves[1]))
                 gap == LeadingSpace(rest)
                 day == SubSeq(rest, gap + 1, Len(rest))
                 gap2 == LeadingSpace(halves[2])
                 year == SubSeq(halves[2], gap2 + 1, Len(halves[2]))
             IN  IF /\ \E m \in 1..12 : MonthAbbreviations[m] = name
                    /\ gap >= 1
                    /\ Len(day) \in {1, 2} /\ AllDigits(day) /\ NumberOf(day) \in 1..31
                    /\ gap2 >= 1
                    /\ MatchesYear(year)
                 THEN MakeDate(NumberOf(year),
                               CHOOSE m \in 1..12 : MonthAbbreviations[m] = name,
                               NumberOf(day))
                 ELSE None

StrptimeWithoutMonthFirst(text, format) ==
    CASE format = "%Y-%m-%d" -> Dashed(text, 1, 2, 3)
      [] format = "%d-%m-%Y" -> Dashed(text, 3, 2, 1)
      [] format = "%m-%d-%Y" -> None
      [] format = "%b %d, %Y" -> Spelled(text)

\* datetime.strptime(text, format).date(); None stands for ValueError
Strptime(text, format) ==
    CASE format = "%Y-%m-%d" -> Dashed(text, 1, 2, 3)
      [] format = "%d-%m-%Y" -> Dashed(text, 3, 2, 1)
      [] format = "%m-%d-%Y" -> Dashed(text, 3, 1, 2)
      [] format = "%b %d, %Y" -> Spelled(text)

PossibleFormatsMonthFirst == <<"%Y-%m-%d", "%m-%d-%Y", "%d-%m-%Y", "%b %d, %Y">>

\* line 83
possible_formats == <<"%Y-%m-%d", "%d-%m-%Y", "%m-%d-%Y", "%b %d, %Y">>

\* lines 82-89: the first format that parses; a value that is no string
\* raises TypeError under every format
RECURSIVE ParseDate(_, _)
ParseDate(value, formats) ==
    IF formats = <<>> \/ value.t # "string" THEN None
    ELSE LET parsed == Strptime(value.str, Head(formats))
         IN  IF parsed # None THEN parsed ELSE ParseDate(value, Tail(formats))

\* float(text) for a decimal numeral with at most two fraction digits, in
\* hundredths; None stands for ValueError
ParseDecimal(text) ==
    LET core == Strip(text)
        signed == core # <<>> /\ core[1] \in {"-", "+"}
        digits == IF signed THEN Tail(core) ELSE core
        parts == SplitOn(digits, ".")
        whole == parts[1]
        frac == IF Len(parts) = 2 THEN parts[2] ELSE <<>>
        cents == IF frac = <<>> THEN 0
                 ELSE IF Len(frac) = 1 THEN 10 * NumberOf(frac)
                 ELSE NumberOf(SubSeq(frac, 1, 2))
        size == 100 * NumberOf(whole) + cents
    IN  IF /\ Len(parts) \in {1, 2}
           /\ AllDigits(whole) /\ AllDigits(frac)
           /\ whole # <<>> \/ frac # <<>>
        THEN Just(IF signed /\ core[1] = "-" THEN 0 - size ELSE size)
        ELSE None

\* line 77: float(value): the number, or the exception type raised
Float(value) ==
    CASE value.t = "number" -> [ok |-> TRUE, num |-> value.num, error |-> ""]
      [] value.t = "bool" -> [ok |-> TRUE, num |-> 100 * value.num, error |-> ""]
      [] value.t = "bigint" -> [ok |-> FALSE, num |-> 0, error |-> "OverflowError"]
      [] value.t = "string" ->
            LET parsed == ParseDecimal(value.str)
            IN  IF parsed # None THEN [ok |-> TRUE, num |-> parsed[1], error |-> ""]
                ELSE [ok |-> FALSE, num |-> 0, error |-> "ValueError"]
      [] OTHER -> [ok |-> FALSE, num |-> 0, error |-> "TypeError"]

\* `key in extracted_data`, for the types that support the test
HasKey(data, key) ==
    CASE data.t = "object" -> key \in DOMAIN data.fields
      [] data.t = "array" -> \E i \in 1..Len(data.items) : data.items[i] = JString(key)
      [] data.t = "string" -> Contains(key, data.str)

\* line 73
MissingFields(data) ==
    LET Absent(key) == ~HasKey(data, key) IN SelectSeq(required_fields, Absent)

ValidateReportsFirstMissing(data) ==
    IF data.t \notin {"object", "array", "string"}
    THEN Raises("TypeError", <<>>, TRUE)
    ELSE IF MissingFields(data) # <<>>
    THEN Raises("InvoiceValidationError",
                MissingMessage \o Head(MissingFields(data)), TRUE)
    ELSE IF data.t # "object"
    THEN Raises("TypeError", <<>>, TRUE)
    ELSE LET amount == Float(data.fields[TOTAL_AMOUNT])
             validated_date == ParseDate(data.fields[INVOICE_DATE], possible_formats)
         IN  IF ~amount.ok /\ amount.error \notin {"ValueError", "TypeError"}
             THEN Raises(amount.error, <<>>, TRUE)
             ELSE IF ~amount.ok
             THEN Raises("InvoiceValidationError",
                         AmountMessage \o Str(data.fields[TOTAL_AMOUNT]), TRUE)
             ELSE IF validated_date = None
             THEN Raises("InvoiceValidationError",
                         DateMessage \o Str(data.fields[INVOICE_DATE])
                             \o DateMessageEnd, TRUE)
             ELSE Returns([invoice_id |-> data.fields[INVOICE_ID],
                            vendor_name |-> data.fields[VENDOR_NAME],
                            invoice_date |-> validated_date[1],
                            total_amount |-> amount.num], TRUE)

\* lines 70-99 on the parsed response.  A value that supports no `in` test
\* raises TypeError at line 72; indexing an array or a string by a key raises
\* TypeError at line 77, is caught at line 78 and raises again at line 79.
Validate(data) ==
    IF data.t \notin {"object", "array", "string"}
    THEN Raises("TypeError", <<>>, TRUE)
    ELSE IF MissingFields(data) # <<>>
    THEN Raises("InvoiceValidationError",
                MissingMessage \o Join(MissingFields(data)), TRUE)
    ELSE IF data.t # "object"
    THEN Raises("TypeError", <<>>, TRUE)
    ELSE LET amount == Float(data.fields[TOTAL_AMOUNT])
             validated_date == ParseDate(data.fields[INVOICE_DATE], possible_formats)
         IN  IF ~amount.ok /\ amount.error \notin {"ValueError", "TypeError"}
             THEN Raises(amount.error, <<>>, TRUE)
             ELSE IF ~amount.ok
             THEN Raises("InvoiceValidationError",
                         AmountMessage \o Str(data.fields[TOTAL_AMOUNT]), TRUE)
             ELSE IF validated_date = None
             THEN Raises("InvoiceValidationError",
                         DateMessage \o Str(data.fields[INVOICE_DATE])
                             \o DateMessageEnd, TRUE)
             ELSE Returns([invoice_id |-> data.fields[INVOICE_ID],
                            vendor_name |-> data.fields[VENDOR_NAME],
                            invoice_date |-> validated_date[1],
                            total_amount |-> amount.num], TRUE)

IngestModelBeforeText(document, reply) ==
    IF ~document.readable
    THEN Raises("InvoiceValidationError", PdfMessage \o document.error, FALSE)
    ELSE IF reply.parsed = None
    THEN Raises("InvoiceValidationError", ModelMessage \o reply.error, TRUE)
    ELSE IF Strip(document.text) = <<>>
    THEN Raises("InvoiceValidationError", PdfMessage \o EmptyPdfMessage, TRUE)
    ELSE Validate(reply.parsed[1])

\* lines 9-99.  document: whether pdfplumber reads it (else the text of its
\* error) and the text of its pages; reply: what the model call raised, or
\* the JSON its content parses to (None when json.loads raises, with the
\* text of that error)
ingest_invoice_pdf(document, reply) ==
    IF ~document.readable
    THEN Raises("InvoiceValidationError", PdfMessage \o document.error, FALSE)
    ELSE IF Strip(document.text) = <<>>
    THEN Raises("InvoiceValidationError", PdfMessage \o EmptyPdfMessage, FALSE)
    ELSE IF reply.parsed = None
    THEN Raises("InvoiceValidationError", ModelMessage \o reply.error, TRUE)
    ELSE Validate(reply.parsed[1])

Init == ScorerIdle /\ IngestIdle /\ StoreInit

-----------------------------------------------------------------------------
(* routes/invoice_routes.py InvoiceUpload and monitor.py: the pipeline.    *)
(* A directory is a function from the names of its files to their         *)
(* contents.                                                               *)

\* the contents of the documents drawn: two readable invoices
Documents == {"invoice A", "invoice B"}

DotPdf == <<".","p","d","f">>

\* str.endswith
EndsWith(text, suffix) ==
    /\ Len(text) >= Len(suffix)
    /\ SubSeq(text, Len(text) - Len(suffix) + 1, Len(text)) = suffix

\* the directory dir with content written to the file name, replacing the
\* file of that name if there is one
WriteFile(dir, name, content) ==
    [n \in DOMAIN dir \cup {name} |-> IF n = name THEN content ELSE dir[n]]

\* str.strip(chars)
StripChars(text, chars) ==
    LET kept == {i \in 1..Len(text) : text[i] \notin chars}
    IN  IF kept = {} THEN <<>>
        ELSE LET first == CHOOSE i \in kept : \A j \in kept : i <= j
                 last == CHOOSE i \in kept : \A j \in kept : i >= j
             IN  SubSeq(text, first, last)

\* the characters werkzeug's secure_filename keeps: [A-Za-z0-9_.-]
SafeChars ==
    {UpperCase[i] : i \in 1..Len(UpperCase)} \cup {LowerCase[i] : i \in 1..Len(LowerCase)}
        \cup {"0","1","2","3","4","5","6","7","8","9","_",".","-"}

\* line 51, werkzeug.utils.secure_filename on an ASCII name: each path
\* separator becomes a blank, the words are joined by "_", the characters
\* outside [A-Za-z0-9_.-] are dropped, and "." and "_" are stripped from both ends
secure_filename(filename) ==
    LET blanks == [i \in 1..Len(filename) |->
                      IF filename[i] \in Whitespace \cup {"/"} THEN " " ELSE filename[i]]
        words == CollapseRuns(Strip(blanks), " ")
        joined == [i \in 1..Len(words) |-> IF words[i] = " " THEN "_" ELSE words[i]]
        ascii == KeepAt(joined, {i \in 1..Len(joined) : joined[i] \in SafeChars}, 1)
    IN  StripChars(ascii, {".", "_"})

\* ingestion.py line 9: the parameters of ingest_invoice_pdf, none with a default
IngestParameters ==
    <<"file_stream", "api_key", "api_endpoint", "deployment_name", "model_name">>

\* a call with positional arguments binds them to the parameters in order
\* before the body runs; the parameters left without a value make it raise
\* TypeError ("missing ... required positional arguments")
MissingArguments(arguments) ==
    SubSeq(IngestParameters, Len(arguments) + 1, Len(IngestParameters))

\* a run of the pipeline: who ran it, on what, the line it ended at, the
\* status of the response (0 for the monitor), the exception caught and the
\* invoice returned
Ran(via, request, line, status, error) ==
    Just([via |-> via, request |-> request, line |-> line, status |-> status,
          error |-> error, invoice |-> None])

\* the file names of the uploads drawn: none selected, a plain name, a name
\* with a path, a name with a blank, and a name that is no PDF
UploadNames ==
    {<<>>, InvoicePdf, <<".",".","/">> \o InvoicePdf, <<"m","y"," ">> \o InvoicePdf,
     <<"i","n","v",".","t","x","t">>}

UploadPostStoringFailures ==
    /\ \E invoice_pdf \in {None} \cup {Just([filename |-> n, document |-> d]) :
                                          n \in UploadNames, d \in Documents},
          api_key \in ApiKeys :
         LET request == [invoice_pdf |-> invoice_pdf, api_key |-> api_key]
         IN  IF invoice_pdf = None
             THEN run' = Ran("upload", request, 31, 400, None)
                  /\ UNCHANGED <<processedDir, dbVars>>
             ELSE IF ~Truthy(api_key, <<>>)
             THEN run' = Ran("upload", request, 35, 400, None)
                  /\ UNCHANGED <<processedDir, dbVars>>
             ELSE IF invoice_pdf[1].filename = <<>>
             THEN run' = Ran("upload", request, 39, 400, None)
                  /\ UNCHANGED <<processedDir, dbVars>>
             ELSE IF ~EndsWith(invoice_pdf[1].filename, DotPdf)
             THEN run' = Ran("upload", request, 42, 400, None)
                  /\ UNCHANGED <<processedDir, dbVars>>
             ELSE LET s_filename == secure_filename(invoice_pdf[1].filename)
                      missing == MissingArguments(<<"file.stream", "api_key">>)
                  IN  /\ processedDir' =
                             WriteFile(processedDir, s_filename, invoice_pdf[1].document)
                      /\ nextInvoiceId <= MaxCalls
                      /\ invoiceTable' = invoiceTable \cup
                             {[id |-> nextInvoiceId, vendor_name |-> Just(s_filename),
                               amount |-> Just(0), invoice_date |-> Just(Today),
                               processing_status |-> Just("Failed"),
                               risk_score |-> None, risk_level |-> None,
                               original_filename |-> Just(s_filename)]}
                      /\ nextInvoiceId' = nextInvoiceId + 1
                      /\ UNCHANGED <<riskFactorTable, nextFactorId>>
                      /\ run' = Ran("upload", request, 84, 500,
                                    Just([type |-> "TypeError", missing |-> missing]))
    /\ UNCHANGED <<inboxDir, failedDir, ingestInput, ingestResult,
                   riskVars, addVars, readVars>>

\* invoice_routes.py lines 23-84, InvoiceUpload.post: 400 without the file
\* part, without an api_key, without a file name or with a name that does not
\* end in '.pdf'; else the file is saved under its secured name and
\* ingest_invoice_pdf(file.stream, api_key) is called.  That call leaves three
\* parameters without a value, so it raises TypeError and line 84 answers 500;
\* lines 66-80 run only after a call that returned
UploadPost ==
    /\ \E invoice_pdf \in {None} \cup {Just([filename |-> n, document |-> d]) :
                                          n \in UploadNames, d \in Documents},
          api_key \in ApiKeys :
         LET request == [invoice_pdf |-> invoice_pdf, api_key |-> api_key]
         IN  IF invoice_pdf = None
             THEN run' = Ran("upload", request, 31, 400, None) /\ UNCHANGED processedDir
             ELSE IF ~Truthy(api_key, <<>>)
             THEN run' = Ran("upload", request, 35, 400, None) /\ UNCHANGED processedDir
             ELSE IF invoice_pdf[1].filename = <<>>
             THEN run' = Ran("upload", request, 39, 400, None) /\ UNCHANGED processedDir
             ELSE IF ~EndsWith(invoice_pdf[1].filename, DotPdf)
             THEN run' = Ran("upload", request, 42, 400, None) /\ UNCHANGED processedDir
             ELSE LET s_filename == secure_filename(invoice_pdf[1].filename)
                      missing == MissingArguments(<<"file.stream", "api_key">>)
                  IN  /\ processedDir' =
                             WriteFile(processedDir, s_filename, invoice_pdf[1].document)
                      /\ IF missing # <<>>
                         THEN run' = Ran("upload", request, 84, 500,
                                         Just([type |-> "TypeError", missing |-> missing]))
                         ELSE run' = Ran("upload", request, 66, 0, None)
    /\ UNCHANGED <<inboxDir, failedDir, ingestInput, ingestResult,
                   riskVars, dbVars, addVars, readVars>>

\* os.path.splitext: the extension starts at the last dot that has a
\* character other than a dot before it
SplitExt(filename) ==
    LET dots == {i \in 1..Len(filename) :
                    filename[i] = "." /\ \E j \in 1..(i - 1) : filename[j] # "."}
    IN  IF dots = {} THEN [name |-> filename, ext |-> <<>>]
        ELSE LET i == CHOOSE k \in dots : \A j \in dots : k >= j
             IN  [name |-> SubSeq(filename, 1, i - 1),
                  ext |-> SubSeq(filename, i, Len(filename))]

\* monitor.py lines 76-85: the name move_file gives the file in dest_dir:
\* the prefixed name, or the first of name_1.ext, name_2.ext, ... that no
\* file of dest_dir has
MoveTarget(dest_dir, filename, prefix) ==
    LET new_filename == IF prefix # <<>> THEN prefix \o <<"_">> \o filename ELSE filename
        parts == SplitExt(new_filename)
        Numbered(count) == parts.name \o <<"_">> \o Digits(count) \o parts.ext
    IN  IF new_filename \notin DOMAIN dest_dir THEN new_filename
        ELSE Numbered(CHOOSE count \in 1..Cardinality(DOMAIN dest_dir) :
                         /\ Numbered(count) \notin DOMAIN dest_dir
                         /\ \A c \in 1..(count - 1) : Numbered(c) \in DOMAIN dest_dir)

ErrorPrefix == <<"e","r","r","o","r">>

\* monitor.py lines 27-69: a file or a directory appears in the watched
\* directory and watchdog calls on_created.  A file whose path ends in '.pdf'
\* goes to process_invoice, where ingest_invoice_pdf(pdf_path) leaves four
\* parameters without a value and raises TypeError, so the file is moved to
\* the failed directory with the prefix "error"; anything else stays
OnCreated ==
    /\ Cardinality(DOMAIN failedDir) < MaxFiles
    /\ \E event \in [is_directory : BOOLEAN,
                     src_path : {InvoicePdf, <<"i","n","v",".","t","x","t">>},
                     document : Documents] :
         /\ event.src_path \notin DOMAIN inboxDir
         /\ IF ~event.is_directory /\ EndsWith(event.src_path, DotPdf)
            THEN LET missing == MissingArguments(<<"pdf_path">>)
                 IN  IF missing # <<>>
                     THEN /\ failedDir' =
                                 WriteFile(failedDir,
                                           MoveTarget(failedDir, event.src_path, ErrorPrefix),
                                           event.document)
                          /\ run' = Ran("monitor", event, 69, 0,
                                        Just([type |-> "TypeError", missing |-> missing]))
                          /\ UNCHANGED inboxDir
                     ELSE /\ run' = Ran("monitor", event, 44, 0, None)
                          /\ inboxDir' = WriteFile(inboxDir, event.src_path, event.document)
                          /\ UNCHANGED failedDir
            ELSE /\ inboxDir' = WriteFile(inboxDir, event.src_path,
                                          IF event.is_directory THEN "directory"
                                          ELSE event.document)
                 /\ run' = Ran("monitor", event, 30, 0, None)
                 /\ UNCHANGED failedDir
    /\ UNCHANGED <<processedDir, ingestInput, ingestResult,
                   riskVars, dbVars, addVars, readVars>>

\* invoice_routes.py lines 108-121, InvoicePDF.get for a stored invoice: the
\* file of the processed directory that has the invoice's original_filename,
\* None (404) without the name or without the file
ServedFile(invoice, dir) ==
    IF Truthy(invoice.original_filename, <<>>) /\ invoice.original_filename[1] \in DOMAIN dir
    THEN Just(dir[invoice.original_filename[1]])
    ELSE None

\* uploads and files dropped in the watched directory, in any order
PipelineSpec == Init /\ [][UploadPost \/ OnCreated]_vars

AddStep(a, calls) ==
    \/ Call(a, calls)
    \/ FlushInvoice(a)
    \/ FlushFactor(a)
    \/ Commit(a)
    \/ Rollback(a)
    \/ Raise(a)
    \/ Finish(a)

\* the requests of the read routes
ReadStep(levels, sorts, ids) ==
    \/ GetAllInvoices(levels, sorts)
    \/ GetInvoiceById
    \/ LoadRiskFactors
    \/ SummaryCount
    \/ SummaryLevels
    \/ SummaryAverage
    \/ GetVendorStatistics(ids)
    \/ FinishRead

\* both callers of the add and a reader, interleaved statement by statement
Next ==
    \/ \E a \in Adders : AddStep(a, AddArgs)
    \/ ReadStep({None}, {None}, {None, Just(1)})

Spec == Init /\ [][Next]_vars

\* one caller filling the store, and the list query under every argument
QueryNext ==
    \/ AddStep("upload", QueryArgs)
    \/ GetAllInvoices(LevelArgs, SortArgs)
    \/ LoadRiskFactors
    \/ FinishRead

QuerySpec == Init /\ [][QueryNext]_vars

\* one caller filling the store, and the routes that look one invoice up
LookupNext ==
    \/ AddStep("upload",
               QueryArgs \cup {PipelineArgs(Ingested(AcmeCorp, 0 - Units(20), Tuesday)),
                               [UnscoredArgs EXCEPT !.risk_factors_data =
                                   <<RfData(Just(<<"A","m","o","u","n","t","_","D","e","v","i","a","t","i","o","n">>), Just(40)),
                                     RfData(Just(<<"P","o","s","s","i","b","l","e"," ","d","u","p","l","i","c","a","t","e">>), Just(10))>>]})
    \/ NarrativePost
    \/ NarrativeVendorStatistics
    \/ NarrativeRiskFactors
    \/ NarrativeModel
    \/ PdfGet
    \/ FinishRead

LookupSpec == Init /\ [][LookupNext]_vars

\* a direct call of the add that passes the primary key 0
KeyZeroArgs == [TwoFactorArgs EXCEPT !.invoice_data.id = Just(0)]

\* the calls that fill the store for the statistics
StatsArgs == {NoFactorArgs, OneFactorArgs, TwoFactorArgs, UnscoredArgs, KeyZeroArgs,
              [TwoFactorArgs EXCEPT !.invoice_data.vendor_name = None]}

\* one caller filling the store, the dashboard summary and the vendor statistics
StatsNext ==
    \/ AddStep("upload", StatsArgs)
    \/ SummaryCount
    \/ SummaryLevels
    \/ SummaryAverage
    \/ GetVendorStatistics({None, Just(0), Just(1), Just(2)})
    \/ FinishRead

StatsSpec == Init /\ [][StatsNext]_vars

\* clean_narrative_text(raw_text) for no text and for every text of up to
\* MaxTextLen characters among a letter, space, newline, tab, two zero-width
\* characters and the word joiner
CleanNarrative ==
    /\ rpc = "idle"
    /\ \E raw_text \in {None} \cup
            {Just(text) : text \in UNION {[1..n -> {"a", " ", NL, TAB, ZWSP, BOM, WJ}] :
                                             n \in 0..MaxTextLen}} :
          result' = Just([op |-> "clean", raw_text |-> raw_text,
                          text |-> clean_narrative_text(raw_text)])
    /\ rpc' = "done"
    /\ UNCHANGED <<loaded, seenIds, dbVars, addVars, riskVars, ingestVars>>

CleanSpec == Init /\ [][CleanNarrative \/ FinishRead]_vars

\* both callers of the add, and deletes of stored invoices
CascadeNext ==
    \/ \E a \in Adders : AddStep(a, AddArgs)
    \/ DeleteInvoice

CascadeSpec == Init /\ [][CascadeNext]_vars

\* one caller of the add, with calls that fail, and every read-side operation
ReadSideSpec ==
    Init /\ [][\/ AddStep("upload", AddArgs)
               \/ ReadStep({None}, {None}, {None, Just(1)})
               \/ NarrativePost
               \/ NarrativeVendorStatistics
               \/ NarrativeRiskFactors
               \/ NarrativeModel]_vars

-----------------------------------------------------------------------------
(* Inputs of the scorer.                                                   *)

Dates ==
    {dt \in [y : FirstYear..(FirstYear + NumYears - 1), m : 1..12, d : 1..31] :
        dt.d <= DaysInMonth(dt.y, dt.m)}

\* 0, 500, 9999.99, 10000, 10000.01, 15000, a credit note, and a missing key
AmountValues == {0, Units(500), Units(10000) - 1, Units(10000), Units(10000) + 1,
                 Units(15000), 0 - Units(20000)}

Amounts == {Just(a) : a \in AmountValues} \cup {None}

NamePrefixes == {<<>>, <<"A","c","m","e"," ">>}

NameCores ==
    { <<"C","o","n","s","u","l","t","i","n","g">>,
      <<"c","o","n","s","u","l","t","i","n","g">>,
      <<"C","O","N","S","U","L","T","I","N","G">>,
      <<"c","O","n","S","u","L","t","I","n","G">>,
      <<"S","e","r","v","i","c","e","s">>,
      <<"S","E","R","V","I","C","E","S">>,
      <<"s","E","r","V","i","C","e","S">>,
      <<"C","o","n","s","u","l","t","i","n">>,
      <<"S","E","R","V","I","C","E">>,
      <<"C","o","n","s","u","l","t"," ","i","n","g">>,
      <<"C","o","r","p">>,
      <<"I","T"," ","S","e","r","v","i","c","e","s"," ","&"," ",
        "C","o","n","s","u","l","t","i","n","g">>,
      <<>> }

NameSuffixes == {<<>>, <<"S">>, <<"g">>, <<" ","L","t","d">>}

VendorNames == {p \o c \o s : p \in NamePrefixes, c \in NameCores, s \in NameSuffixes}

RiskInputs == [total_amount : Amounts, vendor_name : VendorNames,
               invoice_date : {Just(dt) : dt \in Dates} \cup {None}]

ProbeScores == (0 - MaxProbeScore)..MaxProbeScore

-----------------------------------------------------------------------------
(* The scorer applied to every input.                                      *)

RiskInit == ScorerIdle /\ IngestIdle /\ StoreInit

\* calculate_risk(invoice_data)
Score ==
    /\ mode = "idle"
    /\ \E invoice_data \in RiskInputs :
        /\ riskInput' = invoice_data
        /\ riskResult' = calculate_risk(invoice_data)
    /\ mode' = "scored"
    /\ UNCHANGED <<probeScore, probeTier, ingestVars, dbVars, addVars, readVars>>

\* the tier thresholds alone, on an arbitrary integer score
Tier ==
    /\ mode = "idle"
    /\ \E s \in ProbeScores :
        /\ probeScore' = s
        /\ probeTier' = Just(RiskLevel(s))
    /\ mode' = "tiered"
    /\ UNCHANGED <<riskInput, riskResult, ingestVars, dbVars, addVars, readVars>>

RiskNext == Score \/ Tier

RiskSpec == RiskInit /\ [][RiskNext]_vars

-----------------------------------------------------------------------------
(* Inputs of the ingestion, and the ingestion applied to every input.      *)

Pad2(n) == IF n < 10 THEN <<"0">> \o Digits(n) ELSE Digits(n)

MonthNames ==
    << <<"J","a","n">>, <<"F","e","b">>, <<"M","a","r">>, <<"A","p","r">>,
       <<"M","a","y">>, <<"J","u","n">>, <<"J","u","l">>, <<"A","u","g">>,
       <<"S","e","p">>, <<"O","c","t">>, <<"N","o","v">>, <<"D","e","c">> >>

\* a date as the model may write it: YYYY-MM-DD, DD-MM-YYYY, MM-DD-YYYY and
\* 'Mon DD, YYYY'
IsoText(dt) == Digits(dt.y) \o <<"-">> \o Pad2(dt.m) \o <<"-">> \o Pad2(dt.d)
DayFirstText(dt) == Pad2(dt.d) \o <<"-">> \o Pad2(dt.m) \o <<"-">> \o Digits(dt.y)
MonthFirstText(dt) == Pad2(dt.m) \o <<"-">> \o Pad2(dt.d) \o <<"-">> \o Digits(dt.y)
SpelledText(dt) ==
    MonthNames[dt.m] \o <<" ">> \o Pad2(dt.d) \o <<",", " ">> \o Digits(dt.y)

\* the required keys as a set
AllFour == {INVOICE_ID, VENDOR_NAME, INVOICE_DATE, TOTAL_AMOUNT}

\* the object with the keys K of the required four and the values given
ObjectOf(K, id, vendor, dt, amount) ==
    JObject([key \in K |->
                IF key = INVOICE_ID THEN id
                ELSE IF key = VENDOR_NAME THEN vendor
                ELSE IF key = INVOICE_DATE THEN dt
                ELSE amount])

\* the calls drawn.  A document gives text, or none (unreadable, without
\* text, with blank text); the model call raises, or its content is no JSON,
\* or it parses: to an object with any subset of the four keys, to an object
\* with the four keys and any of the amounts, dates, ids and vendors below, to
\* an object whose date is a rendering of a calendar date or none of the
\* renderings, or to a JSON value that is no object.
IngestInputs ==
    LET odd_dates ==
            { <<"2","0","2","4","/","0","3","/","1","5">>,
              <<"1","5",".","0","3",".","2","0","2","4">>,
              <<"M","a","r","c","h"," ","1","5",","," ","2","0","2","4">>,
              <<"3","1","-","0","2","-","2","0","2","4">>,
              <<"1","3","-","1","3","-","2","0","2","4">>,
              <<"2","0","2","4","-","3","-","5">>,
              <<"m","a","r"," "," ","5",",",TAB,"2","0","2","4">>,
              <<>>,
              <<"0","0","0","0","-","0","1","-","0","1">>,
              <<"2","0","2","4","-","0","2","-","3","0">>,
              <<" ","5","-","0","3","-","2","0","2","4">>,
              <<"2","0","2","4","-","0","3","-","1","5"," ">>,
              <<"1","5","-","0","3","-","2","4">>,
              <<"M","a","r"," ","1","5"," ","2","0","2","4">> }
        date_texts ==
            UNION {{IsoText(dt), DayFirstText(dt), MonthFirstText(dt), SpelledText(dt)} :
                      dt \in Dates}
                \cup odd_dates
        number == JString(<<"I","N","V","-","1">>)
        iso == JString(<<"2","0","2","4","-","0","3","-","1","5">>)
        slashed == JString(<<"1","5","/","0","3","/","2","0","2","4">>)
        amounts ==
            { JNumber(Units(500)), JNumber(0 - Units(20)), JNumber(123456),
              JString(<<"1","2","3","4",".","5","6">>), JString(<<"a","b","c">>),
              JString(<<"1",",","2","3","4",".","5","6">>),
              JString(<<" ","4","2"," ">>), JString(<<>>), JNull, JBool(TRUE),
              JArray(<<>>), JObject(<<>>), JBigInt }
        dates ==
            { iso, JString(<<"0","3","-","0","4","-","2","0","2","4">>), slashed,
              JNull, JNumber(Units(2024)) }
        parsed ==
            {ObjectOf(K, number, JString(AcmeCorp), iso, JNumber(Units(500))) :
                K \in SUBSET AllFour}
              \cup {ObjectOf(K, number, JString(AcmeCorp), slashed,
                             JString(<<"a","b","c">>)) : K \in SUBSET AllFour}
              \cup {ObjectOf(AllFour, id, vendor, dt, amount) :
                       id \in {number, JNull, JNumber(Units(7))},
                       vendor \in {JString(AcmeCorp), JNull},
                       dt \in dates,
                       amount \in amounts}
              \cup {ObjectOf(AllFour, number, JString(AcmeCorp), JString(text),
                             JNumber(Units(500))) : text \in date_texts}
              \cup { JNull, JBool(TRUE), JNumber(Units(5)), JString(<<"o","k">>),
                     JString(INVOICE_ID \o <<" ">> \o VENDOR_NAME \o <<" ">>
                                \o INVOICE_DATE \o <<" ">> \o TOTAL_AMOUNT),
                     JArray(<<>>),
                     JArray(<<JString(INVOICE_ID), JString(VENDOR_NAME),
                              JString(INVOICE_DATE)>>),
                     JArray(<<JString(INVOICE_ID), JString(VENDOR_NAME),
                              JString(INVOICE_DATE), JString(TOTAL_AMOUNT)>>) }
        replies ==
            {[parsed |-> None, error |-> e] :
                e \in {<<"t","i","m","e","o","u","t">>,
                       <<"E","x","p","e","c","t","i","n","g"," ","v","a","l","u","e">>}}
              \cup {[parsed |-> Just(value), error |-> <<>>] : value \in parsed}
        good == [readable |-> TRUE, text |-> <<"I","N","V">>, error |-> <<>>]
        bad ==
            { [readable |-> FALSE, text |-> <<>>,
               error |-> <<"N","o"," ","/","R","o","o","t"," ","o","b","j","e","c","t">>],
              [readable |-> TRUE, text |-> <<>>, error |-> <<>>],
              [readable |-> TRUE, text |-> <<" ", NL, " ">>, error |-> <<>>] }
    IN  {[document |-> good, reply |-> r] : r \in replies}
          \cup {[document |-> d,
                 reply |-> [parsed |-> Just(ObjectOf(AllFour, number, JString(AcmeCorp),
                                                      iso, JNumber(Units(500)))),
                            error |-> <<>>]] : d \in bad}

\* ingest_invoice_pdf(file_stream, api_key, api_endpoint, deployment_name, model_name)
Ingest ==
    /\ ingestInput = None
    /\ \E input \in IngestInputs :
         /\ ingestInput' = Just(input)
         /\ ingestResult' = Just(ingest_invoice_pdf(input.document, input.reply))
    /\ UNCHANGED <<fileVars, riskVars, dbVars, addVars, readVars>>

IngestSpec == Init /\ [][Ingest]_vars

-----------------------------------------------------------------------------
(* Properties of the scorer.                                               *)

\* the number of entries of a factor list that carry a given name
CountNamed(factors, name) ==
    Cardinality({i \in 1..Len(factors) : factors[i].feature_name = name})

\* the contributions of the entries that carry a given name
ContributionsNamed(factors, name) ==
    {factors[i].contribution : i \in {j \in 1..Len(factors) : factors[j].feature_name = name}}

RECURSIVE SumContributions(_)
SumContributions(factors) ==
    IF factors = <<>> THEN 0
    ELSE Head(factors).contribution + SumContributions(Tail(factors))

FeatureNames(factors) == [i \in 1..Len(factors) |-> factors[i].feature_name]

\* word w (lower case) stands in s at offset i, each letter in either case
StandsAt(w, s, i) ==
    \A k \in 1..Len(w) :
        \/ s[i + k] = w[k]
        \/ \E j \in 1..Len(LowerCase) : LowerCase[j] = w[k] /\ UpperCase[j] = s[i + k]

MentionsAnyCase(w, s) == \E i \in 0..(Len(s) - Len(w)) : StandsAt(w, s, i)

\* Zeller's congruence: 0 Saturday, 1 Sunday, 2 Monday, ... 6 Friday
Zeller(dt) ==
    LET mm == IF dt.m < 3 THEN dt.m + 12 ELSE dt.m
        yy == IF dt.m < 3 THEN dt.y - 1 ELSE dt.y
        K == yy % 100
        J == yy \div 100
    IN  (dt.d + ((13 * (mm + 1)) \div 5) + K + (K \div 4) + (J \div 4) + 5 * J) % 7

IsSaturdayOrSunday(dt) == Zeller(dt) \in {0, 1}


\* C4: the score-to-tier mapping is total and non-overlapping: every integer
\* score gets exactly one of Low (score <= 30), Medium (31..60), High (> 60),
\* and the tier calculate_risk returns is the one its score maps to.
C4_TierMappingTotal ==
    /\ mode = "tiered" =>
        /\ probeTier \in {Just("Low"), Just("Medium"), Just("High")}
        /\ (probeTier = Just("Low")) <=> (probeScore <= 30)
        /\ (probeTier = Just("Medium")) <=> (31 <= probeScore /\ probeScore <= 60)
        /\ (probeTier = Just("High")) <=> (probeScore > 60)
    /\ mode = "scored" =>
        /\ riskResult.risk_level \in {"Low", "Medium", "High"}
        /\ (riskResult.risk_level = "Low") <=> (riskResult.risk_score <= 30)
        /\ (riskResult.risk_level = "Medium") <=>
               (31 <= riskResult.risk_score /\ riskResult.risk_score <= 60)
        /\ (riskResult.risk_level = "High") <=> (riskResult.risk_score > 60)

C4_Witness ==
    /\ mode = "tiered"
    /\ probeScore \in {30, 31, 60, 61}
    /\ probeTier = Just(IF probeScore = 30 THEN "Low"
                        ELSE IF probeScore = 61 THEN "High" ELSE "Medium")

\* C5: an amount over 10000 gives exactly one 'High Invoice Amount' factor
\* with contribution 45; an amount of 10000 or less gives none, whatever the
\* vendor name and the date are.
C5_HighAmountFactor ==
    mode = "scored" =>
        LET amt == riskInput.total_amount
            n == CountNamed(riskResult.xai_factors, HIGH_INVOICE_AMOUNT)
        IN  /\ (amt # None /\ amt[1] > 1000000) =>
                /\ n = 1
                /\ ContributionsNamed(riskResult.xai_factors, HIGH_INVOICE_AMOUNT) = {45}
            /\ (amt # None /\ amt[1] <= 1000000) => n = 0

C5_Witness ==
    /\ mode = "scored"
    /\ riskInput.total_amount = Just(1000000)
    /\ CountNamed(riskResult.xai_factors, HIGH_INVOICE_AMOUNT) = 0

\* C6: a vendor name that mentions 'consulting' or 'services' in any mix of
\* upper and lower case gives exactly one 'Vendor Type' factor contributing
\* 30 (once, also when both words occur); any other name gives none.
C6_VendorTypeFactor ==
    mode = "scored" =>
        LET name == riskInput.vendor_name
            n == CountNamed(riskResult.xai_factors, VENDOR_TYPE)
        IN  IF MentionsAnyCase(CONSULTING, name) \/ MentionsAnyCase(SERVICES, name)
            THEN /\ n = 1
                 /\ ContributionsNamed(riskResult.xai_factors, VENDOR_TYPE) = {30}
            ELSE n = 0

C6_Witness ==
    /\ mode = "scored"
    /\ MentionsAnyCase(CONSULTING, riskInput.vendor_name)
    /\ MentionsAnyCase(SERVICES, riskInput.vendor_name)
    /\ ~Contains(CONSULTING, riskInput.vendor_name)
    /\ CountNamed(riskResult.xai_factors, VENDOR_TYPE) = 1

\* C7: a date on a Saturday or Sunday gives exactly one 'Weekend Transaction'
\* factor contributing 20; a date on Monday to Friday gives none.
C7_WeekendFactor ==
    (mode = "scored" /\ riskInput.invoice_date # None) =>
        LET n == CountNamed(riskResult.xai_factors, WEEKEND_TRANSACTION)
        IN  IF IsSaturdayOrSunday(riskInput.invoice_date[1])
            THEN /\ n = 1
                 /\ ContributionsNamed(riskResult.xai_factors, WEEKEND_TRANSACTION) = {20}
            ELSE n = 0

C7_Witness ==
    /\ mode = "scored"
    /\ riskInput.invoice_date # None
    /\ Zeller(riskInput.invoice_date[1]) = 0
    /\ CountNamed(riskResult.xai_factors, WEEKEND_TRANSACTION) = 1

\* C8: the rules are independently additive: the score is the sum of the
\* contributions of the returned factors (0 when none), 15000 / 'Acme
\* Consulting' / a Saturday scores 95 and is High, 500 / 'Acme Corp' / a
\* Tuesday scores 0, is Low and has no factor, and every score is one of
\* 0, 20, 30, 45, 50, 65, 75, 95.
C8_ScoreIsSumOfFactors ==
    mode = "scored" =>
        /\ riskResult.risk_score = SumContributions(riskResult.xai_factors)
        /\ riskResult.risk_score \in {0, 20, 30, 45, 50, 65, 75, 95}
        /\ ( /\ riskInput.total_amount = Just(1500000)
             /\ riskInput.vendor_name = AcmeConsulting
             /\ riskInput.invoice_date # None
             /\ Zeller(riskInput.invoice_date[1]) = 0 ) =>
                /\ riskResult.risk_score = 95
                /\ riskResult.risk_level = "High"
        /\ ( /\ riskInput.total_amount = Just(50000)
             /\ riskInput.vendor_name = AcmeCorp
             /\ riskInput.invoice_date # None
             /\ Zeller(riskInput.invoice_date[1]) = 3 ) =>
                /\ riskResult.risk_score = 0
                /\ riskResult.risk_level = "Low"
                /\ riskResult.xai_factors = <<>>

C8_Witness ==
    /\ mode = "scored"
    /\ riskInput.total_amount = Just(1500000)
    /\ riskInput.vendor_name = AcmeConsulting
    /\ riskInput.invoice_date # None
    /\ Zeller(riskInput.invoice_date[1]) = 0
    /\ riskResult.risk_score = 95
    /\ Len(riskResult.xai_factors) = 3

\* C9: the factor list holds an entry exactly for each rule that fired, each
\* once, in the order High Invoice Amount, Vendor Type, Weekend Transaction:
\* it is the subsequence of that order picked by the rules that fired.
C9_FactorsInEvaluationOrder ==
    mode = "scored" =>
        LET amt == riskInput.total_amount
            dt == riskInput.invoice_date
            name == riskInput.vendor_name
            high == IF amt # None /\ amt[1] > 1000000 THEN <<HIGH_INVOICE_AMOUNT>> ELSE <<>>
            vendor == IF MentionsAnyCase(CONSULTING, name) \/ MentionsAnyCase(SERVICES, name)
                      THEN <<VENDOR_TYPE>> ELSE <<>>
            weekend == IF dt # None /\ IsSaturdayOrSunday(dt[1])
                       THEN <<WEEKEND_TRANSACTION>> ELSE <<>>
        IN  FeatureNames(riskResult.xai_factors) = high \o vendor \o weekend

C9_Witness ==
    /\ mode = "scored"
    /\ FeatureNames(riskResult.xai_factors) = <<HIGH_INVOICE_AMOUNT, WEEKEND_TRANSACTION>>

-----------------------------------------------------------------------------
(* Properties of the store.                                                *)

Returned(a) == pc[a] = "done" /\ outcome[a] = Just("returned")

Failed(a) == pc[a] = "done" /\ outcome[a] # Just("returned")

\* the invoice id a caller's INSERT was given, if it got that far
OwnIds(a) ==
    IF new_invoice[a] = None \/ new_invoice[a][1].id = None THEN {}
    ELSE {new_invoice[a][1].id[1]}

\* the committed rows that stem from a caller's current call
OwnInvoiceRows(a) == {row \in invoiceTable : row.id \in OwnIds(a)}
OwnFactorRows(a) == {f \in riskFactorTable : f.invoice_id \in OwnIds(a)}

\* the error a call with these arguments meets first, if any step before the
\* COMMIT fails
FirstError(x) ==
    IF x.invoice_data.unknown_key THEN "TypeError"
    ELSE IF \E k \in 1..Len(x.risk_factors_data) : x.risk_factors_data[k].unknown_key
    THEN "TypeError"
    ELSE IF x.invoice_data.vendor_name = None \/ x.invoice_data.amount = None
    THEN "IntegrityError"
    ELSE IF \E k \in 1..Len(x.risk_factors_data) :
                \/ x.risk_factors_data[k].feature_name = None
                \/ x.risk_factors_data[k].contribution = None
    THEN "IntegrityError"
    ELSE "OperationalError"

\* (feature_name, contribution) of factor rows or of rf_data, in order
FactorData(fs) ==
    [k \in 1..Len(fs) |->
        [feature_name |-> fs[k].feature_name, contribution |-> fs[k].contribution]]

\* after a failed call: none of its rows is stored or pending, and the
\* exception raised is the one that was caught, the first the call met
C1_AfterFailure ==
    \A a \in Adders :
        Failed(a) =>
            /\ OwnInvoiceRows(a) = {}
            /\ OwnFactorRows(a) = {}
            /\ txInvoices[a] = {}
            /\ txFactors[a] = {}
            /\ outcome[a] = caught[a]
            /\ outcome[a] = Just(FirstError(args[a][1]))

\* a step changes the committed tables only by adding rows, and only the
\* COMMIT of a call that returns does so
C1_OnlySuccessWrites ==
    /\ invoiceTable \subseteq invoiceTable'
    /\ riskFactorTable \subseteq riskFactorTable'
    /\ (invoiceTable' # invoiceTable \/ riskFactorTable' # riskFactorTable) =>
          \E a \in Adders : pc[a] = "flush_factors" /\ Returned(a)'

\* C1: add_invoice_with_risk_factors is all-or-nothing: when a step of it
\* fails (building the invoice, building a risk factor, the commit), the store
\* holds no invoice row and no risk-factor row of that call (an empty store
\* stays empty), every row stored before is unchanged, and the original error
\* is re-raised.
C1_AllOrNothing == []C1_AfterFailure /\ [][C1_OnlySuccessWrites]_vars

C1_Witness ==
    \E a \in Adders :
        /\ Failed(a)
        /\ outcome[a] = Just("IntegrityError")
        /\ OwnIds(a) # {}
        /\ new_invoice[a][1].risk_factors[1].id # None
        /\ invoiceTable = {}
        /\ riskFactorTable = {}

\* the reader never holds a row of a call that has not committed
C2_NoUncommittedRowSeen ==
    \A a \in Adders :
        (pc[a] \in {"flush_factors", "except", "raise"} \/ Failed(a)) =>
            /\ OwnIds(a) \cap seenIds = {}
            /\ rpc = "loading" =>
                  \A k \in 1..Len(result[1].rows) : result[1].rows[k].id \notin OwnIds(a)

\* every invoice the reader holds comes with exactly the factors of its add
C2_InvoiceWithAllFactors ==
    rpc = "loading" =>
        \A k \in 1..Len(loaded) :
            LET row == result[1].rows[k]
            IN  /\ row.id \in DOMAIN created
                /\ FactorData(loaded[k]) = FactorData(created[row.id])
                /\ \A i \in 1..Len(loaded[k]) : loaded[k][i].invoice_id = row.id

\* C2: a read running concurrently with an add never observes an intermediate
\* state: it sees none of the rows of an add, or the invoice row together
\* with all of its risk-factor rows.
C2_ReadsAreAtomic == C2_NoUncommittedRowSeen /\ C2_InvoiceWithAllFactors

C2_Witness ==
    /\ rpc = "loading"
    /\ Len(loaded) >= 1
    /\ Len(loaded[1]) = 2
    /\ \E a \in Adders : pc[a] = "flush_factors" /\ txFactors[a] # {}

\* a call that returned left one invoice row, which owns the factors passed
C3_AfterSuccess ==
    \A a \in Adders :
        Returned(a) =>
            LET x == args[a][1]
                mine == OwnInvoiceRows(a)
            IN  /\ Cardinality(mine) = 1
                /\ \A row \in mine :
                      /\ row.vendor_name = x.invoice_data.vendor_name
                      /\ row.amount = x.invoice_data.amount
                      /\ row.risk_score = x.invoice_data.risk_score
                      /\ row.risk_level = x.invoice_data.risk_level
                /\ FactorData(ById(OwnFactorRows(a))) = FactorData(x.risk_factors_data)
                /\ txInvoices[a] = {}
                /\ txFactors[a] = {}

\* a call that failed left no row of its own
C3_AfterFailure ==
    \A a \in Adders :
        Failed(a) =>
            OwnInvoiceRows(a) = {} /\ OwnFactorRows(a) = {} /\ txInvoices[a] = {}
                /\ txFactors[a] = {}

\* no step of one caller removes or alters a row stored, or a row pending in
\* the other caller's transaction
C3_OthersUntouched ==
    /\ invoiceTable \subseteq invoiceTable'
    /\ riskFactorTable \subseteq riskFactorTable'
    /\ \A a, b \in Adders :
          (a # b /\ (pc'[a] # pc[a] \/ new_invoice'[a] # new_invoice[a])) =>
              /\ txInvoices'[b] = txInvoices[b]
              /\ txFactors'[b] = txFactors[b]
              /\ new_invoice'[b] = new_invoice[b]

\* C3: when several adds run concurrently, each call that succeeds leaves
\* exactly one invoice row owning exactly the factors passed to it, and a call
\* that fails leaves none of its rows and neither removes nor alters the rows
\* written or pending in any other call.
C3_ConcurrentAdds ==
    [](C3_AfterSuccess /\ C3_AfterFailure) /\ [][C3_OthersUntouched]_vars

C3_Witness ==
    /\ Failed("upload")
    /\ OwnIds("upload") # {}
    /\ pc["monitor"] = "flush_factors"
    /\ txInvoices["monitor"] # {}
    /\ txFactors["monitor"] # {}
    /\ \A i \in OwnIds("upload") : \A j \in OwnIds("monitor") : i > j

\* whether a stored row passes the tier filter of a list query
PassesFilter(row, risk_level) ==
    risk_level \in {None, Just("")} \/ row.risk_level = risk_level

\* C10: get_all_invoices returns each matching invoice exactly once: no
\* identifier appears twice, however many risk factors an invoice owns, with
\* or without a tier filter and with or without a date sort.
C10_EachInvoiceOnce ==
    (rpc = "loading" /\ result[1].op = "list") =>
        LET rows == result[1].rows
        IN  /\ \A i, j \in 1..Len(rows) : i # j => rows[i].id # rows[j].id
            /\ \A id \in seenIds :
                  LET stored == CHOOSE row \in invoiceTable : row.id = id
                      hits == {k \in 1..Len(rows) : rows[k].id = id}
                  IN  Cardinality(hits) =
                        (IF PassesFilter(stored, result[1].risk_level) THEN 1 ELSE 0)

C10_Witness ==
    /\ rpc = "loading"
    /\ result[1].op = "list"
    /\ result[1].risk_level = Just("High")
    /\ result[1].sort_by_date # None
    /\ Len(result[1].rows) = 2
    /\ Len(loaded) = 2
    /\ Len(loaded[1]) = 2

\* the stored invoices a list query saw, as rows
SeenRows == {row \in invoiceTable : row.id \in seenIds}

\* C11: get_all_invoices(risk_level, sort_by_date) returns exactly the stored
\* invoices whose tier equals risk_level, compared exactly and with case (all
\* stored invoices when no filter is given; an invoice with an unset tier is
\* never returned under a filter), by invoice date non-decreasing for 'asc' and
\* non-increasing for 'desc'.  An empty risk_level counts as no filter.
C11_FilterAndSort ==
    (rpc = "loading" /\ result[1].op = "list") =>
        LET rows == result[1].rows
            risk_level == result[1].risk_level
            sort_by_date == result[1].sort_by_date
            returned == {rows[k] : k \in 1..Len(rows)}
        IN  /\ risk_level \in {None, Just("")} => returned = SeenRows
            /\ risk_level \notin {None, Just("")} =>
                  /\ returned = {row \in SeenRows : row.risk_level = risk_level}
                  /\ \A row \in returned : row.risk_level # None
            /\ sort_by_date = Just(ASC) =>
                  \A i, j \in 1..Len(rows) :
                      i < j => ToOrdinal(rows[i].invoice_date[1])
                                  <= ToOrdinal(rows[j].invoice_date[1])
            /\ sort_by_date = Just(DESC) =>
                  \A i, j \in 1..Len(rows) :
                      i < j => ToOrdinal(rows[i].invoice_date[1])
                                  >= ToOrdinal(rows[j].invoice_date[1])

C11_Witness ==
    /\ rpc = "loading"
    /\ result[1].op = "list"
    /\ result[1].risk_level = Just("Low")
    /\ result[1].sort_by_date = Just(DESC)
    /\ Len(result[1].rows) = 2
    /\ result[1].rows[1].id > result[1].rows[2].id
    /\ result[1].rows[1].invoice_date = Just(Tuesday)
    /\ result[1].rows[2].invoice_date = Just(Saturday)

\* a route that looked an invoice up holds a response
LookedUp == rpc # "idle" /\ result[1].op \in {"narrative", "pdf"}

\* what a lookup holds is the stored invoice with the identifier asked for;
\* without it the route answers 404 (400 when the api_key is missing, before
\* any lookup), and the language model is called only for an invoice found
C12_Response ==
    LookedUp =>
        LET r == result[1]
        IN  /\ Len(r.rows) <= 1
            /\ \A k \in 1..Len(r.rows) :
                  r.rows[k] \in invoiceTable /\ r.rows[k].id = r.invoice_id
            /\ (r.rows = <<>> /\ r.op = "pdf") => r.status = 404
            /\ (r.rows = <<>> /\ r.op = "narrative") =>
                  /\ r.status \in {400, 404}
                  /\ rpc = "done"
                  /\ ~r.model_called
                  /\ r.narrative = None
            /\ r.status = 400 => r.invoice_id \notin seenIds
            /\ r.status = 404 /\ r.op = "narrative" => r.rows = <<>>

\* the lookup finds the invoice exactly when one with that identifier is stored
C12_Lookup ==
    (rpc = "idle" /\ rpc' # "idle" /\ result'[1].op \in {"narrative", "pdf"}
        /\ result'[1].status # 400) =>
        ((result'[1].rows # <<>>) <=>
            (\E row \in invoiceTable : row.id = result'[1].invoice_id))

\* C12: get_invoice_by_id(id) returns the stored invoice with that identifier
\* when one exists and None when none exists, without raising; the narrative
\* route and the PDF route turn None into a 404, and the language model is
\* not called.
C12_LookupOrNotFound == []C12_Response /\ [][C12_Lookup]_vars

C12_Witness ==
    /\ LookedUp
    /\ result[1].op = "narrative"
    /\ result[1].status = 404
    /\ result[1].invoice_id = 2
    /\ \E row \in invoiceTable : row.id = 1

\* the three statements of a summary saw the same store
SummaryOfOneStore ==
    /\ rpc = "done"
    /\ result[1].op = "summary"
    /\ result[1].seen_by_count = seenIds
    /\ result[1].seen_by_levels = seenIds

\* the sum of f over a finite set of rows
RECURSIVE ScoreSum(_)
ScoreSum(S) ==
    IF S = {} THEN 0
    ELSE LET x == CHOOSE y \in S : TRUE IN x.risk_score[1] + ScoreSum(S \ {x})

RECURSIVE CountSum(_, _)
CountSum(counts, levels) ==
    IF levels = {} THEN 0
    ELSE LET l == CHOOSE y \in levels : TRUE
         IN  counts[l] + CountSum(counts, levels \ {l})

\* C13: after any sequence of adds, get_summary_statistics returns
\* total_invoices equal to the number of stored invoices, a tier map that gives
\* for each tier present the number of invoices of that tier (an invoice with
\* an unset tier is in the total and in no tier entry, so the tier counts sum
\* to at most the total), and the mean risk score over the invoices whose
\* score is set, to two decimal places, which is 0 when none is scored.
C13_SummaryStatistics ==
    SummaryOfOneStore =>
        LET r == result[1]
            scored == {row \in SeenRows : row.risk_score # None}
            tiers == {row.risk_level[1] : row \in {x \in SeenRows : x.risk_level # None}}
            n == Cardinality(scored)
        IN  /\ r.total_invoices = Cardinality(SeenRows)
            /\ DOMAIN r.invoices_per_risk_level = tiers
            /\ \A l \in tiers :
                  r.invoices_per_risk_level[l] =
                      Cardinality({row \in SeenRows : row.risk_level = Just(l)})
            /\ CountSum(r.invoices_per_risk_level, tiers) <= r.total_invoices
            /\ CountSum(r.invoices_per_risk_level, tiers) =
                  Cardinality({row \in SeenRows : row.risk_level # None})
            /\ scored = {} => r.average_risk_score = 0
            /\ scored # {} =>
                  LET off == r.average_risk_score * n - 100 * ScoreSum(scored)
                  IN  2 * off <= n /\ 2 * off >= -n

C13_Witness ==
    /\ SummaryOfOneStore
    /\ result[1].total_invoices = 2
    /\ DOMAIN result[1].invoices_per_risk_level = {"High"}
    /\ result[1].invoices_per_risk_level["High"] = 1
    /\ result[1].average_risk_score = 6500

\* a vendor statistics query has answered
VendorAnswered == rpc = "done" /\ result[1].op = "vendor"

\* the stored invoices of the vendor asked for, the excluded one left out
VendorHistory ==
    {row \in invoiceTable :
        /\ row.id \in seenIds
        /\ row.vendor_name = Just(result[1].vendor_name)
        /\ result[1].current_invoice_id # None =>
              row.id # result[1].current_invoice_id[1]}

RECURSIVE AmountSum(_)
AmountSum(S) ==
    IF S = {} THEN 0
    ELSE LET x == CHOOSE y \in S : TRUE IN x.amount[1] + AmountSum(S \ {x})

NarrativeAnswered ==
    rpc = "done" /\ result[1].op = "narrative" /\ result[1].rows # <<>>

\* the characters of a text that are neither whitespace nor zero-width
Visible(text) ==
    LET Solid(c) == c \notin {" ", NL, TAB, NBSP, ZWSP, ZWNJ, ZWJ, BOM}
    IN  SelectSeq(text, Solid)

\* the text names the invoice and asks for a manual review
AsksForManualReview(text, id) ==
    /\ Contains(<<"f","a","i","l","e","d">>, text)
    /\ Contains(<<"r","e","v","i","e","w"," ","i","n","v","o","i","c","e"," ">>
                    \o Digits(id) \o <<" ","m","a","n","u","a","l","l","y">>, text)

\* the text is the reply's content, sanitized, and is not empty
IsSanitizedContent(text, content) ==
    /\ content # None
    /\ text # <<>>
    /\ Visible(text) = Visible(content[1])
    /\ \A i \in 1..Len(text) : text[i] \notin {ZWSP, ZWNJ, ZWJ, BOM}
    /\ text[1] \notin {" ", NL, TAB, NBSP}
    /\ text[Len(text)] \notin {" ", NL, TAB, NBSP}

\* C15: generate_narrative never propagates an exception: whatever the vendor
\* statistics query and the model call do (raise, no content, empty, whitespace
\* only, invisible characters only, text), the route answers 200 with a string,
\* which is the sanitized, non-empty model text or the fallback string naming
\* the invoice and asking for a manual review; content that is empty after
\* sanitization gives the fallback.
C15_NarrativeNeverRaises ==
    NarrativeAnswered =>
        LET r == result[1]
            id == r.rows[1].id
        IN  /\ r.status = 200
            /\ r.narrative # None
            /\ r.narrative[1] # <<>>
            /\ \/ AsksForManualReview(r.narrative[1], id)
               \/ r.model_called /\ IsSanitizedContent(r.narrative[1], r.content)
            /\ (r.content = None \/ Visible(r.content[1]) = <<>>) =>
                  AsksForManualReview(r.narrative[1], id)
            /\ (r.model_called /\ r.content # None /\ Visible(r.content[1]) # <<>>) =>
                  IsSanitizedContent(r.narrative[1], r.content)

C15_Witness ==
    /\ NarrativeAnswered
    /\ result[1].model_called
    /\ result[1].content = Just(<<ZWSP, BOM>>)
    /\ result[1].rows[1].id = 1
    /\ AsksForManualReview(result[1].narrative[1], 1)

\* ingest_invoice_pdf was called and has ended
IngestDone == ingestInput # None /\ ingestResult # None

\* dt is a day of the calendar
IsCalendarDate(dt) ==
    /\ DOMAIN dt = {"y", "m", "d"}
    /\ dt.y >= 1
    /\ dt.m \in 1..12
    /\ dt.d \in 1..DaysInMonth(dt.y, dt.m)

\* the call ended by returning a record of the four fields
ReturnedRecord ==
    /\ ingestResult[1].raised = None
    /\ ingestResult[1].value # None
    /\ DOMAIN ingestResult[1].value[1] =
          {"invoice_id", "vendor_name", "invoice_date", "total_amount"}
    /\ IsCalendarDate(ingestResult[1].value[1].invoice_date)
    /\ ingestResult[1].value[1].total_amount \in Int

\* the call ended by raising InvoiceValidationError
RaisedExtractionError ==
    /\ ingestResult[1].raised # None
    /\ ingestResult[1].value = None
    /\ ingestResult[1].raised[1].type = "InvoiceValidationError"

\* C16: ingest_invoice_pdf has exactly two outcomes: for every document and
\* every model outcome (call error, non-JSON text, JSON of any type, an object
\* with any subset of the four keys and any values) it returns a record of
\* invoice_id, vendor_name, a calendar date and a numeric amount, or it raises
\* InvoiceValidationError; no other exception type escapes.
C16_RecordOrExtractionError ==
    IngestDone => ReturnedRecord \/ RaisedExtractionError

\* the document gave text and the model's response parsed to a JSON object
ObjectParsed ==
    /\ IngestDone
    /\ ingestInput[1].document.readable
    /\ Strip(ingestInput[1].document.text) # <<>>
    /\ ingestInput[1].reply.parsed # None
    /\ ingestInput[1].reply.parsed[1].t = "object"

\* the keys of the parsed object
ParsedKeys == DOMAIN ingestInput[1].reply.parsed[1].fields

StartsWith(text, prefix) ==
    Len(text) >= Len(prefix) /\ SubSeq(text, 1, Len(prefix)) = prefix

\* the call raised the missing-fields error
RaisedMissingFields ==
    /\ RaisedExtractionError
    /\ StartsWith(ingestResult[1].raised[1].message, MissingMessage)

\* what the message says after its fixed beginning
ListedInMessage ==
    SubSeq(ingestResult[1].raised[1].message, Len(MissingMessage) + 1,
           Len(ingestResult[1].raised[1].message))

\* C17: when the parsed response is an object lacking one or more of the four
\* required keys, ingest_invoice_pdf raises the extraction error and its
\* message lists every absent key and no present key, for each non-empty set
\* of missing keys; when all four keys are present the presence check passes
\* whatever their values are.
C17_MissingKeysListed ==
    ObjectParsed =>
        LET absent == AllFour \ ParsedKeys
        IN  /\ absent # {} =>
                  /\ RaisedMissingFields
                  /\ \A key \in AllFour :
                        Contains(key, ListedInMessage) <=> key \in absent
            /\ absent = {} => ~RaisedMissingFields

C17_Witness ==
    /\ ObjectParsed
    /\ ParsedKeys = {INVOICE_ID, INVOICE_DATE}
    /\ RaisedMissingFields
    /\ ListedInMessage = VENDOR_NAME \o <<",", " ">> \o TOTAL_AMOUNT

\* the parsed object has the four keys, its total_amount converts to a
\* number, and its invoice_date is a string
DateStepReached ==
    /\ ObjectParsed
    /\ ParsedKeys = AllFour
    /\ ingestInput[1].reply.parsed[1].fields[TOTAL_AMOUNT].t \in {"number", "bool"}
    /\ ingestInput[1].reply.parsed[1].fields[INVOICE_DATE].t = "string"

\* the raw invoice_date of the response
RawDate == ingestInput[1].reply.parsed[1].fields[INVOICE_DATE].str

\* the raw date read by one format alone
ReadAs(format) == Strptime(RawDate, format)

\* the call returned the record with this date
ReturnedDate(dt) ==
    ReturnedRecord /\ ingestResult[1].value[1].invoice_date = dt

ThirdOfApril == [y |-> 2024, m |-> 4, d |-> 3]

\* C18: date normalization tries ISO YYYY-MM-DD, day-month-year,
\* month-day-year and 'Mon DD, YYYY' in this order and accepts the first that
\* parses; '03-04-2024' is read as 3 April 2024; a string that matches none of
\* the four raises the extraction error carrying the raw value.
C18_FirstFormatThatParses ==
    DateStepReached =>
        LET iso == ReadAs("%Y-%m-%d")
            dmy == ReadAs("%d-%m-%Y")
            mdy == ReadAs("%m-%d-%Y")
            mon == ReadAs("%b %d, %Y")
        IN  /\ iso # None => ReturnedDate(iso[1])
            /\ (iso = None /\ dmy # None) => ReturnedDate(dmy[1])
            /\ (iso = None /\ dmy = None /\ mdy # None) => ReturnedDate(mdy[1])
            /\ (iso = None /\ dmy = None /\ mdy = None /\ mon # None) =>
                  ReturnedDate(mon[1])
            /\ (iso = None /\ dmy = None /\ mdy = None /\ mon = None) =>
                  /\ RaisedExtractionError
                  /\ ingestResult[1].raised[1].message =
                        DateMessage \o RawDate \o DateMessageEnd
            /\ RawDate = <<"0","3","-","0","4","-","2","0","2","4">> =>
                  ReturnedDate(ThirdOfApril)

C18_Witness ==
    /\ DateStepReached
    /\ RawDate = <<"0","3","-","0","4","-","2","0","2","4">>
    /\ ReadAs("%d-%m-%Y") # None
    /\ ReadAs("%m-%d-%Y") # None
    /\ ReturnedDate(ThirdOfApril)

\* C19 as stated: for every calendar date D, the renderings of D as
\* YYYY-MM-DD, DD-MM-YYYY, MM-DD-YYYY and 'Mon DD, YYYY' all parse in
\* ingest_invoice_pdf to D.
C19_EveryRenderingParsesBack ==
    DateStepReached =>
        \A D \in Dates :
            RawDate \in {IsoText(D), DayFirstText(D), MonthFirstText(D),
                         SpelledText(D)}
                => ReturnedDate(D)

\* the date with the day and the month of D exchanged
Exchanged(D) == [y |-> D.y, m |-> D.d, d |-> D.m]

\* C19: for every calendar date D, the renderings of D as YYYY-MM-DD,
\* DD-MM-YYYY and 'Mon DD, YYYY' parse in ingest_invoice_pdf to D; the
\* rendering MM-DD-YYYY parses to D when the day of D is above 12 or equals
\* its month, and otherwise to the date with day and month exchanged.
C19_RenderingsParseBack ==
    DateStepReached =>
        \A D \in Dates :
            /\ RawDate \in {IsoText(D), DayFirstText(D), SpelledText(D)}
                  => ReturnedDate(D)
            /\ RawDate = MonthFirstText(D) =>
                  IF D.d > 12 \/ D.d = D.m THEN ReturnedDate(D)
                  ELSE ReturnedDate(Exchanged(D))

C19_Witness ==
    /\ DateStepReached
    /\ RawDate = MonthFirstText([y |-> 2024, m |-> 12, d |-> 5])
    /\ ReturnedDate([y |-> 2024, m |-> 5, d |-> 12])

\* the rows of the invoice table, committed or written in an open transaction
AllInvoiceRows == invoiceTable \cup UNION {txInvoices[a] : a \in Adders}

\* C20: in every reachable state of the store each invoice has its risk score
\* and its risk tier both set or both unset, whatever calls of
\* add_invoice_with_risk_factors the upload route and the directory monitor
\* have made, successful or failing.
C20_ScoreAndTierTogether ==
    \A row \in AllInvoiceRows :
        (row.risk_score = None) <=> (row.risk_level = None)

C20_Witness ==
    /\ \E row \in invoiceTable : row.risk_score # None /\ row.risk_level # None
    /\ \E a \in Adders : Returned(a)
    /\ \E a \in Adders : Failed(a) /\ outcome[a] = Just("IntegrityError")

\* the committed risk factors of the invoice with this id
FactorsOf(table, id) == {f \in table : f.invoice_id = id}

\* no factor is orphaned, committed or pending, and a stored invoice owns the
\* factors of the add that created it
C21_FactorsOwned ==
    /\ \A f \in riskFactorTable :
          Cardinality({row \in invoiceTable : row.id = f.invoice_id}) = 1
    /\ \A a \in Adders : \A f \in txFactors[a] :
          Cardinality({row \in txInvoices[a] : row.id = f.invoice_id}) = 1
    /\ \A row \in invoiceTable :
          /\ row.id \in DOMAIN created
          /\ FactorData(ById(FactorsOf(riskFactorTable, row.id)))
                = FactorData(created[row.id])

\* a step leaves the factors of every invoice that stays stored as they are,
\* and removes a factor only together with its invoice, all of them at once
C21_FactorsFrozen ==
    LET before == {row.id : row \in invoiceTable}
        after == {row.id : row \in invoiceTable'}
    IN  /\ \A id \in before \cap after :
              FactorsOf(riskFactorTable', id) = FactorsOf(riskFactorTable, id)
        /\ \A id \in before \ after : FactorsOf(riskFactorTable', id) = {}
        /\ \A f \in riskFactorTable \ riskFactorTable' :
              f.invoice_id \in before \ after

\* C21: in every reachable state each risk-factor row references exactly one
\* existing invoice, the factors of a stored invoice are exactly those
\* supplied in the add that created it and never change afterwards, and
\* deleting an invoice deletes all of its risk factors and no factor of any
\* other invoice.
C21_ExclusiveOwnership == []C21_FactorsOwned /\ [][C21_FactorsFrozen]_vars

\* an invoice with two factors was deleted; another one keeps its two
C21_Witness ==
    \E gone \in DOMAIN created :
        /\ Len(created[gone]) = 2
        /\ \A row \in AllInvoiceRows : row.id # gone
        /\ FactorsOf(riskFactorTable, gone) = {}
        /\ \E row \in invoiceTable :
              Cardinality(FactorsOf(riskFactorTable, row.id)) = 2

\* C22: every invoice amount is a non-negative decimal: whatever value the
\* model returns for total_amount, ingest_invoice_pdf rejects it with the
\* extraction error or returns a non-negative finite number.
C22_AmountNotNegative ==
    (IngestDone /\ ingestResult[1].raised = None) =>
        /\ ingestResult[1].value[1].total_amount \in Int
        /\ ingestResult[1].value[1].total_amount >= 0

\* the call raised the extraction error and its message begins with this text
RaisedWith(prefix) ==
    RaisedExtractionError /\ StartsWith(ingestResult[1].raised[1].message, prefix)

\* the total_amount of the parsed object is no number: null, a list, an
\* object, or a text that is no numeral
BadAmount ==
    LET amount == ingestInput[1].reply.parsed[1].fields[TOTAL_AMOUNT]
    IN  \/ amount.t \in {"null", "array", "object"}
        \/ /\ amount.t = "string"
           /\ amount.str \in {<<"a","b","c">>, <<>>,
                               <<"1",",","2","3","4",".","5","6">>}

\* the invoice_date of the parsed object is no date: no text, or 15/03/2024
BadDate ==
    LET dt == ingestInput[1].reply.parsed[1].fields[INVOICE_DATE]
    IN  \/ dt.t # "string"
        \/ dt.str = <<"1","5","/","0","3","/","2","0","2","4">>

\* C23: the stages of ingest_invoice_pdf run in the order text extraction,
\* model call and JSON parse, key-presence check, amount coercion, date
\* parsing, and the first failing stage alone determines the error: a
\* document without extractable text fails with the empty-document error and
\* the model is never called for it; a response that lacks a key and has a
\* bad amount reports the missing key; a response with a bad amount and a bad
\* date reports the amount.
C23_FirstFailingStageDecides ==
    IngestDone =>
        LET document == ingestInput[1].document
            reply == ingestInput[1].reply
        IN  /\ ~document.readable =>
                  RaisedWith(PdfMessage) /\ ~ingestResult[1].model_called
            /\ (document.readable /\ Strip(document.text) = <<>>) =>
                  /\ RaisedExtractionError
                  /\ Contains(EmptyPdfMessage, ingestResult[1].raised[1].message)
                  /\ ~ingestResult[1].model_called
            /\ (document.readable /\ Strip(document.text) # <<>>) =>
                  ingestResult[1].model_called
            /\ (document.readable /\ Strip(document.text) # <<>>
                    /\ reply.parsed = None) => RaisedWith(ModelMessage)
            /\ (ObjectParsed /\ ParsedKeys # AllFour) => RaisedWith(MissingMessage)
            /\ (ObjectParsed /\ ParsedKeys = AllFour /\ BadAmount) =>
                  RaisedWith(AmountMessage)
            /\ (ObjectParsed /\ ParsedKeys = AllFour /\ ~BadAmount /\ BadDate
                    /\ reply.parsed[1].fields[TOTAL_AMOUNT].t # "bigint") =>
                  RaisedWith(DateMessage)

C23_Witness ==
    /\ ObjectParsed
    /\ ParsedKeys = AllFour
    /\ BadAmount
    /\ BadDate
    /\ RaisedWith(AmountMessage)

RECURSIVE Gcd(_, _)
Gcd(a, b) == IF b = 0 THEN a ELSE Gcd(b, a % b)

Abs(n) == IF n < 0 THEN 0 - n ELSE n

\* a fraction in lowest terms with a positive denominator
Lowest(f) ==
    LET g == Gcd(Abs(f.num), Abs(f.den))
    IN  IF f.den < 0 THEN [num |-> 0 - (f.num \div g), den |-> 0 - (f.den \div g)]
        ELSE [num |-> f.num \div g, den |-> f.den \div g]

\* C24: generate_narrative computes the vendor statistics with the current
\* invoice excluded and the percentage variance (amount - average) / average
\* * 100 from them; when the vendor's historical average is zero the variance
\* is 0 and no division by zero occurs, so the variance computation never
\* sends an invoice to the fallback path.
C24_VarianceStep ==
    (rpc = "narrative_stats" /\ rpc' # "narrative_stats") =>
        LET invoice == result[1].rows[1]
            history == {x \in invoiceTable :
                           x.vendor_name = invoice.vendor_name /\ x.id # invoice.id}
            total == AmountSum(history)
            n == Cardinality(history)
            r == result'[1]
        IN  /\ r.error # Just("ZeroDivisionError")
            /\ rpc' = "narrative_factors" =>
                  /\ r.variance_pct # None
                  /\ r.variance_pct[1].den # 0
                  /\ total = 0 => r.variance_pct[1].num = 0
                  /\ total # 0 =>
                        Lowest(r.variance_pct[1]) =
                            Lowest([num |-> (invoice.amount[1] * n - total) * 100,
                                    den |-> total])

C24_VarianceFromHistory == [][C24_VarianceStep]_vars

\* clean_narrative_text has returned
Cleaned == rpc = "done" /\ result[1].op = "clean"

\* C25: clean_narrative_text removes zero-width characters, then every
\* newline directly between two non-whitespace characters, then collapses
\* each run of newlines to one, then each run of spaces to one, then trims;
\* for every input the output has no zero-width character, no two
\* consecutive newlines, no two consecutive spaces and no leading or trailing
\* whitespace, and an empty or missing input gives the empty string.
C25_CleanedText ==
    Cleaned =>
        LET raw == result[1].raw_text
            text == result[1].text
        IN  /\ (raw = None \/ raw = Just(<<>>)) => text = <<>>
            /\ \A i \in 1..Len(text) : text[i] \notin {ZWSP, ZWNJ, ZWJ, BOM}
            /\ \A i \in 1..(Len(text) - 1) :
                  /\ ~(text[i] = NL /\ text[i + 1] = NL)
                  /\ ~(text[i] = " " /\ text[i + 1] = " ")
            /\ text # <<>> =>
                  /\ text[1] \notin {" ", NL, TAB, NBSP}
                  /\ text[Len(text)] \notin {" ", NL, TAB, NBSP}
            /\ raw # None => Visible(text) = Visible(raw[1])
            /\ raw = Just(<<"a", NL, ZWSP, NL, "a">>) => text = <<"a", NL, "a">>
            /\ raw = Just(<<"a", NL, NL, "a">>) => text = <<"a", NL, "a">>
            /\ raw = Just(<<"a", NL, "a", " ", " ">>) => text = <<"a", "a">>

C25_Witness ==
    /\ Cleaned
    /\ result[1].raw_text = Just(<<"a", NL, ZWSP, NL, "a">>)
    /\ result[1].text = <<"a", NL, "a">>

\* generate_narrative has built the risk context of its prompt
ContextBuilt ==
    /\ rpc \in {"narrative_model", "done"}
    /\ result[1].op = "narrative"
    /\ result[1].risk_details # None

\* the names of the risk factors of the invoice of the narrative
DriverNames == {loaded[1][i].feature_name[1] : i \in 1..Len(loaded[1])}

\* some factor name contains the keyword, whatever the case of its letters
NameMentions(word) == \E name \in DriverNames : Contains(word, Lower(name))

\* C26: for every invoice whose risk factors were produced by calculate_risk
\* (any subset of 'High Invoice Amount', 'Vendor Type', 'Weekend
\* Transaction', none included) generate_narrative selects none of the four
\* risk-context sentences and the prompt carries the neutral clause; a
\* sentence is selected only when a factor name contains 'amount_deviation',
\* 'new_vendor', 'duplicate' or 'unusual_timing'.
C26_RiskContext ==
    ContextBuilt =>
        LET details == result[1].risk_details[1]
        IN  /\ DriverNames \subseteq
                    {HIGH_INVOICE_AMOUNT, VENDOR_TYPE, WEEKEND_TRANSACTION}
                  => details = {"no_specific_risk_patterns"}
            /\ "amount_deviation" \in details => NameMentions(<<"a","m","o","u","n","t","_","d","e","v","i","a","t","i","o","n">>)
            /\ "new_vendor" \in details => NameMentions(<<"n","e","w","_","v","e","n","d","o","r">>)
            /\ "duplicate" \in details => NameMentions(<<"d","u","p","l","i","c","a","t","e">>)
            /\ "unusual_timing" \in details => NameMentions(<<"u","n","u","s","u","a","l","_","t","i","m","i","n","g">>)
            /\ "no_specific_risk_patterns" \in details =>
                  details = {"no_specific_risk_patterns"}
            /\ details # {}

C26_Witness ==
    /\ ContextBuilt
    /\ DriverNames = {HIGH_INVOICE_AMOUNT, WEEKEND_TRANSACTION}
    /\ result[1].risk_details[1] = {"no_specific_risk_patterns"}

\* the sum of the contributions of a set of risk-factor rows
RECURSIVE ContributionSum(_)
ContributionSum(factors) ==
    IF factors = {} THEN 0
    ELSE LET f == CHOOSE x \in factors : TRUE
         IN  f.contribution[1] + ContributionSum(factors \ {f})

\* the last run of the pipeline failed: the route answered 400 or 500, or the
\* monitor caught an exception
RunFailed(r) == r # None /\ (r[1].status \in {400, 500} \/ r[1].error # None)

C27_StoredAsScored ==
    \A row \in invoiceTable :
        /\ row.processing_status = Just("Processed")
        /\ row.risk_score = Just(ContributionSum(FactorsOf(riskFactorTable, row.id)))
        /\ row.risk_level = Just(RiskLevel(row.risk_score[1]))

C27_FailedRunStoresNothing ==
    RunFailed(run') => invoiceTable' = invoiceTable /\ riskFactorTable' = riskFactorTable

WellFormedUpload(r) ==
    /\ r.via = "upload"
    /\ r.request.invoice_pdf # None
    /\ EndsWith(r.request.invoice_pdf[1].filename, DotPdf)
    /\ Truthy(r.request.api_key, <<>>)

\* the run r is the monitor's, on a PDF file created in the watched directory
PdfCreated(r) ==
    /\ r.via = "monitor"
    /\ ~r.request.is_directory
    /\ EndsWith(r.request.src_path, DotPdf)

C28_RunStoresOneInvoice ==
    run' # None =>
        /\ WellFormedUpload(run'[1]) =>
              /\ run'[1].status = 201
              /\ \E row \in invoiceTable' \ invoiceTable :
                    /\ invoiceTable' = invoiceTable \cup {row}
                    /\ run'[1].invoice = Just(row)
        /\ PdfCreated(run'[1]) =>
              /\ \E row \in invoiceTable' \ invoiceTable :
                    invoiceTable' = invoiceTable \cup {row}
              /\ \E name \in DOMAIN processedDir' \ DOMAIN processedDir :
                    processedDir'[name] = run'[1].request.document
              /\ failedDir' = failedDir

\* C28: a request to the upload route that carries a file named *.pdf under
\* 'invoice_pdf' and a non-empty 'api_key', for a document that can be read
\* and extracted, stores exactly one new invoice and returns it; a PDF created
\* in the watched directory is stored as one invoice and its file is moved to
\* the processed directory, not to the failed directory.
C28_PipelineProcessesPdf == [][C28_RunStoresOneInvoice]_vars

C29_FilesOfInvoicesOnly ==
    \A name \in DOMAIN processedDir :
        \E row \in invoiceTable : row.original_filename = Just(name)

C29_ServedFileKept ==
    /\ \A row \in invoiceTable :
          ServedFile(row, processedDir') = ServedFile(row, processedDir)
    /\ \A row \in invoiceTable' \ invoiceTable :
          (run' # None /\ WellFormedUpload(run'[1])) =>
              ServedFile(row, processedDir') = Just(run'[1].request.invoice_pdf[1].document)

\* C29: after any sequence of uploads, several uploads of different documents
\* under the same file name included, the file the PDF route serves for an
\* invoice is the document that was uploaded when the invoice was created,
\* and the processed directory keeps a file only for an upload that produced
\* an invoice.
C29_OriginalPdfServed == []C29_FilesOfInvoicesOnly /\ [][C29_ServedFileKept]_vars

\* the step is a read-side operation's: the reader moved
ReaderMoved == <<rpc, result, loaded, seenIds>>' # <<rpc, result, loaded, seenIds>>

\* the step is add_invoice_with_risk_factors': a caller of it moved
AdderMoved == addVars' # addVars

\* the rows of both tables, committed or pending in an open transaction, and
\* the identifiers the tables hand out next
Store == <<invoiceTable, riskFactorTable, txInvoices, txFactors, nextInvoiceId, nextFactorId>>

C30_ReadsLeaveStore ==
    /\ ReaderMoved => Store' = Store
    /\ Store' # Store => AdderMoved /\ ~ReaderMoved

\* C30: get_all_invoices, get_invoice_by_id, get_summary_statistics,
\* get_vendor_statistics and generate_narrative leave the store unchanged,
\* whether they succeed or fail: the invoice rows, their attributes and their
\* risk factors are as before, and every change of the store is a step of
\* add_invoice_with_risk_factors.
C30_ReadSideFrame == [][C30_ReadsLeaveStore]_vars

C30_Witness ==
    /\ rpc = "done"
    /\ result # None
    /\ result[1].op = "narrative"
    /\ result[1].narrative # None
    /\ result[1].error # None
    /\ Cardinality(invoiceTable) = 2
    /\ riskFactorTable # {}

====
